---- MODULE Spec2Model ----
(***************************************************************************)
(* A model of the "minimal" command-line agent (src/minimal/rust/src):     *)
(* the command policy classifier (policy_bash.rs) and the conversation     *)
(* orchestrator (core/agent.rs).                                           *)
(*                                                                         *)
(* Strings are sequences of characters: a character is a string of length  *)
(* one, Len/SubSeq/\o are the sequence operators on strings.               *)
(***************************************************************************)
EXTENDS Integers, Sequences, FiniteSets, TLC

(***************************************************************************)
(* Text helpers (the parts of Rust's str used by the code).                *)
(***************************************************************************)

\* the i-th character of s (1-based), "" when i is out of range
Char(s, i) == IF i >= 1 /\ i <= Len(s) THEN SubSeq(s, i, i) ELSE ""

\* char::is_whitespace, on the characters of the modelled alphabet
IsWhitespace(c) == c \in {" ", "\t", "\n", "\r"}

RECURSIVE trim_start(_)
trim_start(s) ==
    IF Len(s) > 0 /\ IsWhitespace(Char(s, 1))
    THEN trim_start(SubSeq(s, 2, Len(s)))
    ELSE s

RECURSIVE trim_end(_)
trim_end(s) ==
    IF Len(s) > 0 /\ IsWhitespace(Char(s, Len(s)))
    THEN trim_end(SubSeq(s, 1, Len(s) - 1))
    ELSE s

\* str::trim
trim(s) == trim_end(trim_start(s))

\* str::starts_with
starts_with(s, prefix) ==
    Len(prefix) <= Len(s) /\ SubSeq(s, 1, Len(prefix)) = prefix

\* str::contains
contains(s, needle) ==
    \E i \in 1..(Len(s) - Len(needle) + 1) :
        SubSeq(s, i, i + Len(needle) - 1) = needle

\* the length of the run of non-whitespace characters of s that starts at i
RECURSIVE TokenLen(_, _)
TokenLen(s, i) ==
    IF i > Len(s) \/ IsWhitespace(Char(s, i)) THEN 0 ELSE 1 + TokenLen(s, i + 1)

\* str::split_whitespace: the maximal runs of non-whitespace characters
RECURSIVE split_whitespace(_)
split_whitespace(s) ==
    LET t == trim_start(s)
        n == TokenLen(t, 1)
    IN  IF Len(t) = 0 THEN << >>
        ELSE <<SubSeq(t, 1, n)>> \o split_whitespace(SubSeq(t, n + 1, Len(t)))

\* Iterator::skip(1).collect::<Vec<_>>()
skip1(v) == IF Len(v) = 0 THEN << >> ELSE Tail(v)

\* [&str]::join
RECURSIVE join(_, _)
join(v, sep) ==
    IF Len(v) = 0 THEN ""
    ELSE IF Len(v) = 1 THEN v[1]
    ELSE v[1] \o sep \o join(Tail(v), sep)


(***************************************************************************)
(* Regular expressions (the regex crate, as far as the code uses it).      *)
(* Regex::new is RegexNew: a recursive-descent parser of the pattern text  *)
(* that answers Ok(ast) or Err; Regex::is_match is is_match: an unanchored *)
(* search, computed on sets of positions (no backtracking, as the crate).  *)
(* Syntax covered: literals, ".", "^", "$", groups "(..)" and "(?:..)",    *)
(* alternation "|", the repetitions "*", "+", "?" (and their lazy forms),  *)
(* classes "[..]" with negation and ranges, the escapes \s \d \w \n \t and *)
(* escaped punctuation. Counted repetition "{n,m}", flags "(?i)" and       *)
(* nested classes are outside the covered syntax.                          *)
(***************************************************************************)

\* the printable ASCII characters in code order (0x20 .. 0x7e)
\* (the backquote, 0x60, cannot be written in a string of this language: the
\* form-feed escape stands for it, and form feed itself is not in the alphabet)
Backquote == "\f"

Ascii ==
    " !\"#$%&'()*+,-./0123456789:;<=>?@ABCDEFGHIJKLMNOPQRSTUVWXYZ[\\]^_"
    \o Backquote \o "abcdefghijklmnopqrstuvwxyz{|}~"

CodeOf(c) == CHOOSE i \in 1..Len(Ascii) : Char(Ascii, i) = c

IsDigit(c) == c # "" /\ contains("0123456789", c)

IsAlnum(c) ==
    c # "" /\ contains("0123456789ABCDEFGHIJKLMNOPQRSTUVWXYZabcdefghijklmnopqrstuvwxyz", c)

CharsOf(s) == {Char(s, i) : i \in 1..Len(s)}

WhitespaceClass == {" ", "\t", "\n", "\r"}
DigitClass == CharsOf("0123456789")
WordClass ==
    CharsOf("0123456789ABCDEFGHIJKLMNOPQRSTUVWXYZabcdefghijklmnopqrstuvwxyz_")

\* abstract syntax
ReEmpty == [k |-> "empty"]
ReLit(c) == [k |-> "lit", c |-> c]
ReAny == [k |-> "any"]
ReClass(set, neg) == [k |-> "class", set |-> set, neg |-> neg]
ReStart == [k |-> "start"]
ReEnd == [k |-> "end"]
ReSeq(a, b) == [k |-> "seq", a |-> a, b |-> b]
ReAlt(a, b) == [k |-> "alt", a |-> a, b |-> b]
ReStar(r) == [k |-> "star", r |-> r]
RePlus(r) == [k |-> "plus", r |-> r]
ReOpt(r) == [k |-> "opt", r |-> r]

ParseOk(ast, pos) == [ok |-> TRUE, ast |-> ast, pos |-> pos]
ParseErr == [ok |-> FALSE, ast |-> ReEmpty, pos |-> 0]

\* an escape sequence, p[i] = "\": the class or literal it denotes
ParseEscape(p, i) ==
    LET Escape(e) ==
            IF e = "" THEN ParseErr                       \* pattern ends in "\"
            ELSE IF e = "s" THEN ParseOk(ReClass(WhitespaceClass, FALSE), i + 2)
            ELSE IF e = "d" THEN ParseOk(ReClass(DigitClass, FALSE), i + 2)
            ELSE IF e = "w" THEN ParseOk(ReClass(WordClass, FALSE), i + 2)
            ELSE IF e = "n" THEN ParseOk(ReLit("\n"), i + 2)
            ELSE IF e = "t" THEN ParseOk(ReLit("\t"), i + 2)
            ELSE IF IsAlnum(e) THEN ParseErr              \* unrecognized escape, backreference
            ELSE ParseOk(ReLit(e), i + 2)                 \* escaped punctuation
    IN  Escape(Char(p, i + 1))

\* the members of a class read so far: [ok, set, pos]
ClassOk(set, pos) == [ok |-> TRUE, set |-> set, pos |-> pos]
ClassErr == [ok |-> FALSE, set |-> {}, pos |-> 0]

\* one member of a class starting at p[i]
ClassAtom(p, i) ==
    LET OfEscape(r) ==
            IF ~r.ok THEN ClassErr
            ELSE IF r.ast.k = "lit" THEN ClassOk({r.ast.c}, r.pos)
            ELSE ClassOk(r.ast.set, r.pos)
        Atom(c) ==
            IF c = "" THEN ClassErr
            ELSE IF c = "\\" THEN OfEscape(ParseEscape(p, i))
            ELSE ClassOk({c}, i + 1)
    IN  Atom(Char(p, i))

\* the members of a class from p[i] up to the closing "]"
RECURSIVE ClassItems(_, _, _)
ClassItems(p, i, first) ==
    LET Joined(set, rest) ==
            IF ~rest.ok THEN ClassErr ELSE ClassOk(set \cup rest.set, rest.pos)
        RangeOf(lo, hi, pos) ==
            IF lo > hi THEN ClassErr                      \* invalid range
            ELSE Joined({Char(Ascii, n) : n \in lo..hi}, ClassItems(p, pos, FALSE))
        Range(a, b) ==                                    \* a range lo-hi
            IF ~b.ok \/ Cardinality(a.set) # 1 \/ Cardinality(b.set) # 1
            THEN ClassErr
            ELSE RangeOf(CodeOf(CHOOSE x \in a.set : TRUE),
                         CodeOf(CHOOSE x \in b.set : TRUE), b.pos)
        After(a) ==
            IF ~a.ok THEN ClassErr
            ELSE IF Char(p, a.pos) = "-" /\ Char(p, a.pos + 1) \notin {"]", ""}
            THEN Range(a, ClassAtom(p, a.pos + 1))
            ELSE Joined(a.set, ClassItems(p, a.pos, FALSE))
    IN  IF i > Len(p) THEN ClassErr                       \* unclosed class
        ELSE IF Char(p, i) = "]" /\ ~first THEN ClassOk({}, i + 1)
        ELSE After(ClassAtom(p, i))

\* a bracketed class, p[i] = "["
ParseClass(p, i) ==
    LET Class(neg, r) == IF r.ok THEN ParseOk(ReClass(r.set, neg), r.pos) ELSE ParseErr
        Items(neg) == Class(neg, ClassItems(p, IF neg THEN i + 2 ELSE i + 1, TRUE))
    IN  Items(Char(p, i + 1) = "^")

\* the repetition operators that follow an atom
RECURSIVE ParsePostfix(_, _, _)
ParsePostfix(p, i, ast) ==
    LET Postfix(c, j) ==
            IF c = "*" THEN ParsePostfix(p, j, ReStar(ast))
            ELSE IF c = "+" THEN ParsePostfix(p, j, RePlus(ast))
            ELSE IF c = "?" THEN ParsePostfix(p, j, ReOpt(ast))
            ELSE IF c = "{" THEN ParseErr       \* counted repetition: not covered
            ELSE ParseOk(ast, i)
    IN  Postfix(Char(p, i), IF Char(p, i + 1) = "?" THEN i + 2 ELSE i + 1)  \* lazy form

RECURSIVE ParseAlt(_, _), ParseConcat(_, _), ParseAtom(_, _)

\* alternation: concat ("|" concat)*
ParseAlt(p, i) ==
    LET Both(a, b) == IF b.ok THEN ParseOk(ReAlt(a.ast, b.ast), b.pos) ELSE ParseErr
        Alt(a) ==
            IF ~a.ok THEN ParseErr
            ELSE IF Char(p, a.pos) = "|" THEN Both(a, ParseAlt(p, a.pos + 1))
            ELSE a
    IN  Alt(ParseConcat(p, i))

\* concatenation: repeated atoms up to "|", ")" or the end
ParseConcat(p, i) ==
    LET Then(q, rest) ==
            IF rest.ok THEN ParseOk(ReSeq(q.ast, rest.ast), rest.pos) ELSE ParseErr
        Rest(q) == IF q.ok THEN Then(q, ParseConcat(p, q.pos)) ELSE ParseErr
        Postfix(a) == IF a.ok THEN Rest(ParsePostfix(p, a.pos, a.ast)) ELSE ParseErr
    IN  IF i > Len(p) \/ Char(p, i) \in {"|", ")"} THEN ParseOk(ReEmpty, i)
        ELSE Postfix(ParseAtom(p, i))

\* one atom at p[i]
ParseAtom(p, i) ==
    LET Group(g) ==
            IF g.ok /\ Char(p, g.pos) = ")" THEN ParseOk(g.ast, g.pos + 1)
            ELSE ParseErr                                 \* unclosed group
        Atom(c) ==
            IF c = "(" THEN
                IF Char(p, i + 1) # "?" THEN Group(ParseAlt(p, i + 1))
                ELSE IF Char(p, i + 2) = ":" THEN Group(ParseAlt(p, i + 3))
                ELSE ParseErr                             \* flags: not covered
            ELSE IF c = "[" THEN ParseClass(p, i)
            ELSE IF c = "\\" THEN ParseEscape(p, i)
            ELSE IF c \in {"*", "+", "?", "{"} THEN ParseErr  \* repetition without operand
            ELSE IF c = "." THEN ParseOk(ReAny, i + 1)
            ELSE IF c = "^" THEN ParseOk(ReStart, i + 1)
            ELSE IF c = "$" THEN ParseOk(ReEnd, i + 1)
            ELSE ParseOk(ReLit(c), i + 1)
    IN  Atom(Char(p, i))

\* Regex::new(pattern): Ok(regex) or Err
RegexNew(p) ==
    LET Whole(r) ==
            IF r.ok /\ r.pos = Len(p) + 1 THEN [ok |-> TRUE, ast |-> r.ast]
            ELSE [ok |-> FALSE, ast |-> ReEmpty]          \* also an unopened ")"
    IN  Whole(ParseAlt(p, 1))

\* the positions where a match of ast can end that starts at a position of S
\* (a position is the number of characters before it)
RECURSIVE Ends(_, _, _), Closure(_, _, _)
Ends(ast, s, S) ==
    CASE ast.k = "empty" -> S
      [] ast.k = "lit"   -> {j + 1 : j \in {x \in S : Char(s, x + 1) = ast.c}}
      [] ast.k = "any"   -> {j + 1 : j \in {x \in S : Char(s, x + 1) \notin {"", "\n"}}}
      [] ast.k = "class" ->
            {j + 1 : j \in {x \in S : x < Len(s)
                                      /\ ((Char(s, x + 1) \in ast.set) # ast.neg)}}
      [] ast.k = "start" -> S \cap {0}
      [] ast.k = "end"   -> S \cap {Len(s)}
      [] ast.k = "seq"   -> Ends(ast.b, s, Ends(ast.a, s, S))
      [] ast.k = "alt"   -> Ends(ast.a, s, S) \cup Ends(ast.b, s, S)
      [] ast.k = "star"  -> Closure(ast.r, s, S)
      [] ast.k = "plus"  -> Closure(ast.r, s, Ends(ast.r, s, S))
      [] ast.k = "opt"   -> S \cup Ends(ast.r, s, S)

Closure(r, s, S) ==
    LET N == S \cup Ends(r, s, S)
    IN  IF N = S THEN S ELSE Closure(r, s, N)

\* Regex::is_match(text): the regex matches somewhere in text
is_match(re, text) == Ends(re.ast, text, 0..Len(text)) # {}

(***************************************************************************)
(* The policy classifier (policy_bash.rs).                                 *)
(***************************************************************************)

\* enum PolicyResult
PolicyResult == {"Auto", "Ask", "Deny"}

DANGEROUS_FILE_PATTERNS ==
    << "\\.env$",
       "\\.env\\.",
       "\\.dev\\.vars$",
       "credentials",
       "secret",
       "\\.pem$",
       "\\.key$",
       "id_rsa",
       "id_ed25519",
       "package-lock\\.json$",
       "yarn\\.lock$",
       "pnpm-lock\\.yaml$",
       "\\.DS_Store$",
       "node_modules" >>

BUILTIN_DENY_PATTERNS ==
    << "rm\\s+(-[rf]+\\s+)*\\/",
       "rm\\s+-rf?\\s+\\*",
       "rm\\s+-rf?\\s+\\.\\*",
       "mkfs",
       "dd\\s+if=.*of=\\/dev",
       ">\\s*\\/dev\\/sd",
       "gcloud\\s+.*delete",
       "gcloud\\s+.*destroy",
       "aws\\s+.*delete",
       "aws\\s+.*terminate",
       "kubectl\\s+delete",
       ":\\(\\)\\s*\\{.*\\|.*&.*\\}",
       "chmod\\s+-R\\s+777\\s+\\/",
       "chown\\s+-R.*\\/",
       "curl.*\\|\\s*(ba)?sh",
       "wget.*\\|\\s*(ba)?sh",
       "ls\\s+-[^\\s]*R",
       "ls\\s+-R",
       "sed\\s.*-i" >>

BUILTIN_AUTO_COMMANDS ==
    << "ls", "ls -la", "ls -l", "ls -a", "pwd", "whoami", "date", "which",
       "cat", "head", "tail", "less", "more", "wc", "file", "stat", "tree",
       "find", "fd", "grep", "rg", "sed -n",
       "git status", "git diff", "git log", "git branch" >>

\* the pattern of force_ask: [|;&`$()]
FORCE_ASK_PATTERN == "[|;&" \o Backquote \o "$()]"

\* .filter_map(|pattern| Regex::new(pattern).ok()): the regexes of the patterns
\* that compile, in order; a pattern that does not compile is left out
RECURSIVE StopAtFirstError(_)
StopAtFirstError(patterns) ==
    LET Compiled(re) ==
            IF re.ok THEN <<re>> \o StopAtFirstError(Tail(patterns)) ELSE << >>
    IN  IF Len(patterns) = 0 THEN << >> ELSE Compiled(RegexNew(Head(patterns)))

RECURSIVE CompilePatterns(_)
CompilePatterns(patterns) ==
    LET Compiled(re) ==
            (IF re.ok THEN <<re>> ELSE << >>) \o CompilePatterns(Tail(patterns))
    IN  IF Len(patterns) = 0 THEN << >> ELSE Compiled(RegexNew(Head(patterns)))

\* the compiled builtin lists
BuiltinDenyRegexes == CompilePatterns(BUILTIN_DENY_PATTERNS)
DangerousFileRegexes == CompilePatterns(DANGEROUS_FILE_PATTERNS)

\* for pattern in list { if pattern.is_match(text) { return .. } }
AnyMatch(regexes, text) == \E i \in 1..Len(regexes) : is_match(regexes[i], text)

\* let mut deny_patterns = builtin, then the configured ones that compile
DenyPatterns(config) ==
    BuiltinDenyRegexes \o CompilePatterns(config.policy.deny_patterns)

\* cmd.split_whitespace().skip(1).collect::<Vec<_>>().join(" ")
WholeCommand(cmd) == cmd

ArgsOf(cmd) == join(skip1(split_whitespace(cmd)), " ")

\* force_ask.is_match(cmd)
ForceAsk(cmd) == is_match(RegexNew(FORCE_ASK_PATTERN), cmd)

\* the builtin auto commands extended by the configured ones
AutoCommands(config) == BUILTIN_AUTO_COMMANDS \o config.policy.auto_commands

\* a command that begins with an allow entry is auto-allowed
AutoPrefixMatch(cmd, auto_cmd) == starts_with(cmd, auto_cmd)

\* cmd == auto_cmd || cmd.starts_with(&(auto_cmd + " "))
AutoMatch(cmd, auto_cmd) == cmd = auto_cmd \/ starts_with(cmd, auto_cmd \o " ")

\* if config.policy.default_action == "deny" { Deny } else { Ask }
DefaultNotAskIsDeny(config) ==
    IF config.policy.default_action # "ask" THEN "Deny" ELSE "Ask"

DefaultAction(config) ==
    IF config.policy.default_action = "deny" THEN "Deny" ELSE "Ask"

\* check_policy with the auto-allow list consulted first
AutoFirst_check_policy(command, config) ==
    LET cmd == trim(command)
        auto_commands == AutoCommands(config)
    IN  IF \E i \in 1..Len(auto_commands) : AutoMatch(cmd, auto_commands[i])
        THEN "Auto"
        ELSE IF AnyMatch(DenyPatterns(config), cmd) THEN "Deny"
        ELSE IF AnyMatch(DangerousFileRegexes, ArgsOf(cmd)) THEN "Deny"
        ELSE IF ForceAsk(cmd) THEN "Ask"
        ELSE DefaultAction(config)

\* check_policy with the metacharacter test before the deny tiers
MetaFirst_check_policy(command, config) ==
    LET cmd == trim(command)
        auto_commands == AutoCommands(config)
    IN  IF ForceAsk(cmd) THEN "Ask"
        ELSE IF AnyMatch(DenyPatterns(config), cmd) THEN "Deny"
        ELSE IF AnyMatch(DangerousFileRegexes, ArgsOf(cmd)) THEN "Deny"
        ELSE IF \E i \in 1..Len(auto_commands) : AutoMatch(cmd, auto_commands[i])
        THEN "Auto"
        ELSE DefaultAction(config)

\* check_policy with the auto-allow list consulted before the metacharacters
AutoBeforeMeta_check_policy(command, config) ==
    LET cmd == trim(command)
        auto_commands == AutoCommands(config)
    IN  IF AnyMatch(DenyPatterns(config), cmd) THEN "Deny"
        ELSE IF AnyMatch(DangerousFileRegexes, ArgsOf(cmd)) THEN "Deny"
        ELSE IF \E i \in 1..Len(auto_commands) : AutoMatch(cmd, auto_commands[i])
        THEN "Auto"
        ELSE IF ForceAsk(cmd) THEN "Ask"
        ELSE DefaultAction(config)

\* check_policy(command, config)
check_policy(command, config) ==
    LET cmd == trim(command)
        auto_commands == AutoCommands(config)
    IN  IF AnyMatch(DenyPatterns(config), cmd) THEN "Deny"
        ELSE IF AnyMatch(DangerousFileRegexes, ArgsOf(cmd)) THEN "Deny"
        ELSE IF ForceAsk(cmd) THEN "Ask"
        ELSE IF \E i \in 1..Len(auto_commands) : AutoMatch(cmd, auto_commands[i])
        THEN "Auto"
        ELSE DefaultAction(config)

(***************************************************************************)
(* JSON values (serde_json::Value), as far as the code uses them.          *)
(* from_str is JsonFromStr: a parser of objects, arrays, strings (with the *)
(* escapes \" \\ \/ \n \t \r), integers and the literals true, false and   *)
(* null; fractions, exponents and \b \f \u escapes are outside the covered *)
(* syntax.  An object is the sequence of its members, a later member with  *)
(* the same key replacing an earlier one on lookup.                        *)
(***************************************************************************)
JNull == [t |-> "null"]
JBool(b) == [t |-> "bool", b |-> b]
JNumber(text) == [t |-> "number", n |-> text]
JString(str) == [t |-> "string", s |-> str]
JArray(items) == [t |-> "array", items |-> items]
JObject(fields) == [t |-> "object", fields |-> fields]
JMember(key, value) == [key |-> key, value |-> value]

\* Option<T>: None is the empty sequence, Some(v) the sequence of v
None == << >>
Some(v) == << v >>

\* Value::get(key): Some(value) for an object that has the key, else None
JGet(value, key) ==
    IF value.t # "object" THEN None
    ELSE LET hits == {i \in 1..Len(value.fields) : value.fields[i].key = key}
         IN  IF hits = {} THEN None
             ELSE Some(value.fields[CHOOSE i \in hits : \A j \in hits : j <= i].value)

\* Value::as_str
JAsStr(value) == IF value.t = "string" THEN Some(value.s) ELSE None

JOk(value, pos) == [ok |-> TRUE, v |-> value, pos |-> pos]
JErr == [ok |-> FALSE, v |-> JNull, pos |-> 0]

IsJsonSpace(c) == c \in {" ", "\t", "\n", "\r"}

RECURSIVE JSkip(_, _)
JSkip(text, i) == IF IsJsonSpace(Char(text, i)) THEN JSkip(text, i + 1) ELSE i

\* the position of the first quote at or after text[i] that is not part of
\* an escape, 0 if there is none (the text is scanned 16 characters at a
\* time for its next quote or backslash)
RECURSIVE ClosingQuote(_, _)
ClosingQuote(text, i) ==
    LET First(stops) == CHOOSE j \in stops : \A k \in stops : j <= k
        At(j) == IF Char(text, j) = "\"" THEN j ELSE ClosingQuote(text, j + 2)
        Window(stops) ==
            IF stops = {} THEN ClosingQuote(text, i + 16) ELSE At(First(stops))
    IN  IF i > Len(text) THEN 0
        ELSE Window({j \in i..(i + 15) : Char(text, j) \in {"\"", "\\"}})

\* the character an escape stands for, "" for an escape outside the
\* covered syntax
EscapeChar(e) ==
    IF e \in {"\"", "\\", "/"} THEN e
    ELSE IF e = "n" THEN "\n"
    ELSE IF e = "t" THEN "\t"
    ELSE IF e = "r" THEN "\r"
    ELSE ""

\* text[lo..hi] with its escapes replaced: [ok, v]
RECURSIVE Unescape(_, _, _)
Unescape(text, lo, hi) ==
    LET First(slashes) == CHOOSE j \in slashes : \A k \in slashes : j <= k
        Rest(p, r) ==
            IF r.ok
            THEN [ok |-> TRUE,
                  v |-> SubSeq(text, lo, p - 1) \o EscapeChar(Char(text, p + 1)) \o r.v]
            ELSE r
        At(p) ==
            IF p + 1 > hi \/ EscapeChar(Char(text, p + 1)) = ""
            THEN [ok |-> FALSE, v |-> ""]
            ELSE Rest(p, Unescape(text, p + 2, hi))
        From(slashes) ==
            IF slashes = {} THEN [ok |-> TRUE, v |-> SubSeq(text, lo, hi)]
            ELSE At(First(slashes))
    IN  From({j \in lo..hi : Char(text, j) = "\\"})

\* the characters of a string literal from text[i] to its closing quote:
\* [ok, v (the decoded text), pos]; an unterminated literal, a control
\* character and an invalid escape are errors
JStringBody(text, i) ==
    LET Bad == [ok |-> FALSE, v |-> "", pos |-> 0]
        Decoded(q, r) == IF r.ok THEN [ok |-> TRUE, v |-> r.v, pos |-> q + 1] ELSE Bad
        Closed(q) ==
            IF q = 0 \/ \E j \in i..(q - 1) : Char(text, j) \in {"\n", "\t", "\r"}
            THEN Bad
            ELSE Decoded(q, Unescape(text, i, q - 1))
    IN  Closed(ClosingQuote(text, i))

RECURSIVE JDigits(_, _)
JDigits(text, i) == IF IsDigit(Char(text, i)) THEN JDigits(text, i + 1) ELSE i

HasAt(text, i, word) ==
    i + Len(word) - 1 <= Len(text) /\ SubSeq(text, i, i + Len(word) - 1) = word

RECURSIVE JValue(_, _), JMemberAt(_, _), JMembers(_, _, _), JElements(_, _, _)

\* one value starting at text[i] (after optional white space)
JValue(text, i) ==
    LET Str(r) == IF r.ok THEN JOk(JString(r.v), r.pos) ELSE JErr
        Number(j, d, k) ==
            IF k = d THEN JErr ELSE JOk(JNumber(SubSeq(text, j, k - 1)), k)
        Digits(j, d) == Number(j, d, JDigits(text, d))
        Value(j, c) ==
            IF c = "{" THEN
                IF Char(text, JSkip(text, j + 1)) = "}"
                THEN JOk(JObject(<< >>), JSkip(text, j + 1) + 1)
                ELSE JMembers(text, j + 1, << >>)
            ELSE IF c = "[" THEN
                IF Char(text, JSkip(text, j + 1)) = "]"
                THEN JOk(JArray(<< >>), JSkip(text, j + 1) + 1)
                ELSE JElements(text, j + 1, << >>)
            ELSE IF c = "\"" THEN Str(JStringBody(text, j + 1))
            ELSE IF HasAt(text, j, "true") THEN JOk(JBool(TRUE), j + 4)
            ELSE IF HasAt(text, j, "false") THEN JOk(JBool(FALSE), j + 5)
            ELSE IF HasAt(text, j, "null") THEN JOk(JNull, j + 4)
            ELSE IF c = "-" THEN Digits(j, j + 1)
            ELSE IF IsDigit(c) THEN Digits(j, j)
            ELSE JErr
    IN  Value(JSkip(text, i), Char(text, JSkip(text, i)))

\* one member of an object, its key starting at text[i]:
\* [ok, key, v, pos (after the value and the white space behind it)]
JMemberAt(text, i) ==
    LET Bad == [ok |-> FALSE, key |-> "", v |-> JNull, pos |-> 0]
        Member(key, val) ==
            IF val.ok
            THEN [ok |-> TRUE, key |-> key.v, v |-> val.v, pos |-> JSkip(text, val.pos)]
            ELSE Bad
        Key(key) ==
            IF key.ok /\ Char(text, JSkip(text, key.pos)) = ":"
            THEN Member(key, JValue(text, JSkip(text, key.pos) + 1))
            ELSE Bad
    IN  IF Char(text, i) = "\"" THEN Key(JStringBody(text, i + 1)) ELSE Bad

\* the members of an object, text[i] being after "{" or ","
JMembers(text, i, acc) ==
    LET Next(m) ==
            IF ~m.ok THEN JErr
            ELSE IF Char(text, m.pos) = ","
            THEN JMembers(text, m.pos + 1, Append(acc, JMember(m.key, m.v)))
            ELSE IF Char(text, m.pos) = "}"
            THEN JOk(JObject(Append(acc, JMember(m.key, m.v))), m.pos + 1)
            ELSE JErr
    IN  Next(JMemberAt(text, JSkip(text, i)))

\* the elements of an array, text[i] being after "[" or ","
JElements(text, i, acc) ==
    LET Next(val) ==
            IF ~val.ok THEN JErr
            ELSE IF Char(text, JSkip(text, val.pos)) = ","
            THEN JElements(text, JSkip(text, val.pos) + 1, Append(acc, val.v))
            ELSE IF Char(text, JSkip(text, val.pos)) = "]"
            THEN JOk(JArray(Append(acc, val.v)), JSkip(text, val.pos) + 1)
            ELSE JErr
    IN  Next(JValue(text, i))

\* serde_json::from_str::<Value>(text): [ok, v]
JsonFromStr(text) ==
    LET Whole(r) ==
            IF r.ok /\ JSkip(text, r.pos) = Len(text) + 1 THEN [ok |-> TRUE, v |-> r.v]
            ELSE [ok |-> FALSE, v |-> JNull]
    IN  Whole(JValue(text, 1))

\* a string as a JSON string literal: the characters up to the first one
\* that is written as an escape, its escape, then the rest likewise
RECURSIVE JsonEscape(_)
JsonEscape(str) ==
    LET First(stops) == CHOOSE j \in stops : \A k \in stops : j <= k
        Escaped(c) ==
            IF c = "\"" THEN "\\\""
            ELSE IF c = "\\" THEN "\\\\"
            ELSE IF c = "\n" THEN "\\n"
            ELSE IF c = "\t" THEN "\\t"
            ELSE "\\r"
        At(p) ==
            SubSeq(str, 1, p - 1) \o Escaped(Char(str, p))
            \o JsonEscape(SubSeq(str, p + 1, Len(str)))
        From(stops) == IF stops = {} THEN str ELSE At(First(stops))
    IN  From({j \in 1..Len(str) : Char(str, j) \in {"\"", "\\", "\n", "\t", "\r"}})

JsonQuote(str) == "\"" \o JsonEscape(str) \o "\""

(***************************************************************************)
(* Messages and tool calls (types.rs) and the pure helpers of agent.rs.    *)
(***************************************************************************)

\* struct ToolCall
ToolCall(id, name, input) == [id |-> id, name |-> name, input |-> input]

\* struct Message; role is "system", "user", "assistant" or "tool"
Message(role, content, thinking, tool_call_id, calls) ==
    [role |-> role, content |-> content, thinking |-> thinking,
     tool_call_id |-> tool_call_id, tool_calls |-> calls]

\* a Tool message that does not name its call
ToolMessageWithoutId(content, call_id) == Message("tool", content, None, None, << >>)

\* Message { role: Role::Tool, content, tool_call_id: Some(call_id), .. }
ToolMessage(content, call_id) == Message("tool", content, None, Some(call_id), << >>)

\* struct BashResult
BashResult(stdout, stderr, code) == [stdout |-> stdout, stderr |-> stderr, code |-> code]

\* struct Usage
Usage(prompt_tokens, completion_tokens, total_tokens) ==
    [prompt_tokens |-> prompt_tokens, completion_tokens |-> completion_tokens,
     total_tokens |-> total_tokens]

\* extract_command(input)
extract_command(input) ==
    LET and_then_as_str(v) == IF v = None THEN None ELSE JAsStr(v[1])
        get_command(parsed) ==
            IF parsed.ok THEN and_then_as_str(JGet(parsed.v, "command")) ELSE None
        unwrap_or(cmd, default) == IF cmd = None THEN default ELSE cmd[1]
    IN  IF input.t = "string"
        THEN unwrap_or(get_command(JsonFromStr(input.s)), input.s)
        ELSE IF input.t = "object"
        THEN unwrap_or(and_then_as_str(JGet(input, "command")), "")
        ELSE ""

\* map_provider_error(err)
map_provider_error(err) ==
    IF contains(err, "401") THEN "Invalid API key."
    ELSE IF contains(err, "429") THEN "Rate limit exceeded. Wait and retry."
    ELSE IF contains(err, "ECONNREFUSED") \/ contains(err, "ENOTFOUND")
    THEN "Network error. Check your connection."
    ELSE err

\* serde_json::to_string_pretty(&json!({"command", "exitCode", "stdout", "stderr"}))
\* (the members of a serde_json map are written in key order)
ToolPayload(cmd, result) ==
    "{\n  \"command\": " \o JsonQuote(cmd)
    \o ",\n  \"exitCode\": " \o ToString(result.code)
    \o ",\n  \"stderr\": " \o JsonQuote(result.stderr)
    \o ",\n  \"stdout\": " \o JsonQuote(result.stdout)
    \o "\n}"

\* what the operating system makes of the child of run_bash: cmd.spawn()
\* fails with err, or child.wait_timeout(BASH_TIMEOUT) returns Ok(Some(status))
\* for a child that exited with a code or was ended by a signal, Ok(None) for
\* a child still running, or Err; stdout and stderr are what the reader
\* threads collected
SpawnError(err) ==
    [kind |-> "spawn_error", err |-> err, code |-> 0, stdout |-> "", stderr |-> ""]
Exited(code, stdout, stderr) ==
    [kind |-> "exited", err |-> "", code |-> code, stdout |-> stdout, stderr |-> stderr]
Signaled(stdout, stderr) ==
    [kind |-> "signaled", err |-> "", code |-> 0, stdout |-> stdout, stderr |-> stderr]
StillRunning(stdout, stderr) ==
    [kind |-> "running", err |-> "", code |-> 0, stdout |-> stdout, stderr |-> stderr]
WaitError(stdout, stderr) ==
    [kind |-> "wait_error", err |-> "", code |-> 0, stdout |-> stdout, stderr |-> stderr]

\* on a timeout the child's stderr is kept and the exit code is the child's
run_bash_ignoring_timeout(outcome) ==
    IF outcome.kind = "spawn_error"
    THEN BashResult("", "Failed to spawn bash: " \o outcome.err, 1)
    ELSE BashResult(outcome.stdout, outcome.stderr, outcome.code)

\* run_bash(command, workspace_root), given what became of the child
run_bash(outcome) ==
    IF outcome.kind = "spawn_error"
    THEN BashResult("", "Failed to spawn bash: " \o outcome.err, 1)
    ELSE IF outcome.kind = "running"
    THEN BashResult(outcome.stdout, "Command timed out (30s)", 124)
    ELSE IF outcome.kind = "exited"
    THEN BashResult(outcome.stdout, outcome.stderr, outcome.code)
    ELSE BashResult(outcome.stdout, outcome.stderr, 1)

\* the child after run_bash: on a timeout, child.kill() and child.wait()
ChildAfter(outcome) ==
    [outcome |-> outcome,
     spawned |-> outcome.kind # "spawn_error",
     killed |-> outcome.kind = "running"]

\* i32 addition as the release build computes it (two's complement, 32 bits:
\* a + b - 2^32 above i32::MAX, a + b + 2^32 below i32::MIN)
I32_MAX == 2147483647

I32Add(a, b) ==
    IF b > 0 /\ a > I32_MAX - b THEN (a - I32_MAX - 1) + (b - I32_MAX - 1)
    ELSE IF b < 0 /\ a < (-I32_MAX - 1) - b THEN (a + I32_MAX + 1) + (b + I32_MAX + 1)
    ELSE a + b

\* Result<(), String> of run_agent_turn; NoResult before the first return
NoResult == [kind |-> "none", err |-> ""]
Ok == [kind |-> "Ok", err |-> ""]
Err(e) == [kind |-> "Err", err |-> e]

(***************************************************************************)
(* State.                                                                  *)
(***************************************************************************)
VARIABLES
    config,          \* Agent.config (the policy part: config.policy)
    messages,        \* Agent.messages
    session_tokens,  \* Agent.session_tokens
    tools,           \* Agent.tools: the tool registry
    pc,              \* where the control thread is
    request,         \* run_agent_turn: request_params.messages of the call in flight
    tool_calls,      \* run_agent_turn: the tool calls of the reply being handled
    call_idx,        \* handle_tool_calls: the index of the call being handled
    results,         \* handle_tool_calls: the local vector of Tool messages
    command,         \* handle_bash_tool: its command argument
    policy_result,   \* handle_bash_tool: the result of check_policy
    turn_result,     \* what the last run_agent_turn returned
    provider_calls,  \* run_agent_turn: loop_count, the provider calls of the turn
    total_calls,     \* observer: the provider calls made so far
    ops,             \* observer: the Agent operations called so far
    approvals,       \* observer: the calls of the prompt_approval callback, each
                     \*   with the tool call it is for, the policy result and the answer
    executed,        \* observer: the calls of run_bash, each with the tool call it
                     \*   is for and the policy result
    provider,        \* Agent.provider: the adapter and its base_url
    http_pending,    \* create_chat_completion: a request was sent, no response yet
    http_requests,   \* observer: the HTTP requests sent so far
    http_response,   \* observer: the HTTP response received to the request sent
                     \*   last (status, body), None before it arrives
    http_request,    \* observer: the request_params the adapter encoded last
    child,           \* observer: what became of the child process of the last
                     \*   run_bash, None before the first
    in_flight,       \* observer: the calls of create_chat_completion and of
                     \*   run_bash that have not returned yet
    endpoint,        \* create_chat_completion: the URL the request is posted to
    pipes,           \* run_bash: what is in the stdout and stderr pipes of the child
    handles,         \* run_bash: stdout_handle and stderr_handle, the reader
                     \*   threads (buf, and whether the thread has returned)
    shell,           \* run_bash: the child process (bash -c command)
    descendant,      \* a process the shell started, which inherited the pipes
    waiter,          \* run_bash: where its own thread is, timed_out, code and
                     \*   the BashResult returned
    sig_rx,          \* run: the interrupt signals queued in the channel
    stdin,           \* the lines entered at the terminal and not read yet
    stdin_lock,      \* the worker thread inside io::stdin().read_line, if any
    workers,         \* read_line: the worker threads that have not finished
    reading,         \* read_line: the call in progress and its line_rx
    returned,        \* observer: what the calls of read_line returned
    repl,            \* run: where the control thread is outside read_line
    typed,           \* observer: the lines entered so far, each with the call
                     \*   of read_line that was pending when it was entered
    raised           \* observer: the interrupt signals raised so far, likewise

vars == << config, tools, messages, session_tokens, pc, request, tool_calls, call_idx,
           results, command, policy_result, turn_result, provider_calls,
           total_calls, ops, approvals, executed, provider, http_pending,
           http_requests, http_response, http_request, child, in_flight, endpoint,
           pipes, handles, shell, descendant, waiter,
           sig_rx, stdin, stdin_lock, workers, reading, returned, repl, typed, raised >>

\* the state of the provider and of its HTTP exchange
http_vars == << provider, http_pending, http_requests, http_response, http_request,
                endpoint >>

\* the state of run_bash, its child and its reader threads
pipe_vars == << pipes, handles, shell, descendant, waiter >>

\* the state of the terminal, of the signal channel and of read_line
term_vars == << sig_rx, stdin, stdin_lock, workers, reading, returned, repl, typed,
                raised >>

\* the state of the threads beside the control thread of the orchestrator
thread_vars == << pipe_vars, term_vars >>

agent_vars == << messages, session_tokens, pc, request, tool_calls, call_idx,
                 results, turn_result, provider_calls, total_calls, ops, approvals,
                 executed, in_flight, http_vars >>

\* the system prompt of the session
SystemPrompt == "You are a helpful coding assistant."

\* Box<dyn ChatProvider>: any implementation of the trait, its replies and
\* failures being inputs
DynProvider == [schema_type |-> "dyn", base_url |-> ""]

\* bash_tool() (tools/bash.rs)
bash_tool ==
    [name |-> "bash", description |-> "Execute a shell command in the workspace.",
     input_schema |->
        JObject(<< JMember("type", JString("object")),
                   JMember("properties", JObject(<<
                       JMember("command", JObject(<<
                           JMember("type", JString("string")),
                           JMember("description",
                                   JString("Shell command to run.")) >>)) >>)),
                   JMember("required", JArray(<< JString("command") >>)) >>)]

\* no command is running and the terminal is untouched
NoThreads ==
    /\ pipes = [stdout |-> << >>, stderr |-> << >>]
    /\ handles = [stdout |-> [buf |-> "", done |-> TRUE], stderr |-> [buf |-> "", done |-> TRUE]]
    /\ shell = [state |-> "none", script |-> << >>, code |-> 0,
                written |-> [stdout |-> "", stderr |-> ""]]
    /\ descendant = "none"
    /\ waiter = [pc |-> "idle", timed_out |-> FALSE, code |-> 0, stdout |-> "", result |-> None]
    /\ sig_rx = << >>
    /\ stdin = << >>
    /\ stdin_lock = 0
    /\ workers = {}
    /\ reading = None
    /\ returned = << >>
    /\ repl = "start"
    /\ typed = << >>
    /\ raised = << >>

\* Agent::new(options): the state after construction
AgentNew ==
    /\ tools = << bash_tool >>
    /\ messages = << Message("system", SystemPrompt, None, None, << >>) >>
    /\ session_tokens = [prompt |-> 0, completion |-> 0, total |-> 0]
    /\ request = << >>
    /\ tool_calls = << >>
    /\ call_idx = 0
    /\ results = << >>
    /\ turn_result = NoResult
    /\ provider_calls = 0
    /\ total_calls = 0
    /\ ops = 0
    /\ approvals = << >>
    /\ executed = << >>
    /\ http_pending = FALSE
    /\ http_requests = 0
    /\ http_response = None
    /\ http_request = None
    /\ child = None
    /\ endpoint = None
    /\ NoThreads
    /\ in_flight = << >>

(***************************************************************************)
(* The classifier on its own: check_policy applied to a command and a      *)
(* policy configuration drawn from bounded sets.                           *)
(***************************************************************************)

\* struct PolicyConfig inside struct Config
Config(default_action, deny_patterns, auto_commands) ==
    [policy |-> [default_action |-> default_action,
                 deny_patterns |-> deny_patterns,
                 auto_commands |-> auto_commands]]

\* default_config().policy: the builtin lists only
default_config == Config("ask", << >>, << >>)

\* configured values: default_action, deny_patterns (some do not compile),
\* auto_commands
DefaultActions == {"ask", "deny", "auto"}

DenyPatternLists ==
    { << >>,
      << "git\\s+(push|status)" >>,
      << "[z-a]", "npm\\s" >>,
      << "(", "*x", "tool$", "a\\" >> }

AutoCommandLists == { << >>, << "echo", "npm test" >> }

PolicyConfigs ==
    { Config(a, d, c) : a \in DefaultActions, d \in DenyPatternLists,
                        c \in AutoCommandLists }

\* commands: a first part, a tail, optional surrounding whitespace
CommandHeads ==
    { "ls", "ls -la", "lsx", "cat", "echo hi", "git status", "git push",
      "rm", "sed", "npm test", "custom-tool", "secret-tool",
      "./node_modules/.bin/tsc" }

CommandTails ==
    { "", " .env", "  .env.local x", " -rf /", " && ls", "; rm -rf /", " -lR",
      " -n 1p f", " src/id_rsa.pub", " credentials; pwd", " x | sh", " $(pwd)",
      " a" \o Backquote \o "b", "\t-i f" }

\* leading and trailing whitespace
CommandPads == { <<"", "">>, <<" ", "">>, <<"", "\t ">> }

Commands ==
    { pad[1] \o h \o t \o pad[2] : pad \in CommandPads, h \in CommandHeads,
                                   t \in CommandTails }

InitPolicy ==
    /\ config \in PolicyConfigs
    /\ command \in Commands
    /\ policy_result = "none"
    /\ pc = "check_policy"
    /\ provider = DynProvider
    /\ AgentNew

\* let policy_result = check_policy(command, &self.config)
ClassifyCommand ==
    /\ pc = "check_policy"
    /\ policy_result = "none"
    /\ policy_result' = check_policy(command, config)
    /\ UNCHANGED << thread_vars, config, tools, child, command, agent_vars >>

NextPolicy == ClassifyCommand

SpecPolicy == InitPolicy /\ [][NextPolicy]_vars

(***************************************************************************)
(* The conversation orchestrator (core/agent.rs): one control thread.  pc  *)
(* is "idle" outside run_agent_turn, "provider" while                      *)
(* create_chat_completion is in flight, "tools" in the loop of             *)
(* handle_tool_calls, "prompt_approval" while the approval callback is in  *)
(* flight and "run_bash" while run_bash is.  The model's replies, the      *)
(* provider's failures, the human's answers and the outcomes of commands   *)
(* are inputs drawn from the sets below.                                   *)
(***************************************************************************)

\* bounds of the exploration: the Agent operations called, and the provider
\* calls made
MaxOps == 3
MaxCalls == 3

\* the configurations of the session
AgentConfigs ==
    { default_config, Config("deny", << "npm\\s+publish", "(" >>, << "npm run" >>) }

\* inputs of add_user_message
UserContents == { "list the files" }

\* the tool calls a reply may carry
CommandInput(cmd) == JObject(<< JMember("command", JString(cmd)) >>)

AgentReplies ==
    { \* a final answer
      [message |-> Message("assistant", "done", Some("thinking"), None, << >>),
       usage |-> Some(Usage(7, 3, 10))],
      \* a final answer that reports the largest usage an i32 holds
      [message |-> Message("assistant", "done", None, None, << >>),
       usage |-> Some(Usage(I32_MAX, 0, I32_MAX))],
      \* an auto-allowed command
      [message |-> Message("assistant", "", None, None,
            << ToolCall("call_1", "bash", CommandInput("ls -la")) >>),
       usage |-> Some(Usage(7, 3, 10))],
      \* a command to ask for, a denied one, an auto-allowed one
      [message |-> Message("assistant", "running", None, None,
            << ToolCall("call_1", "bash", CommandInput("npm run build")),
               ToolCall("call_2", "bash", CommandInput("ls; rm -rf /")),
               ToolCall("call_3", "bash", CommandInput("git status")) >>),
       usage |-> None],
      \* an unknown tool, no command, a dangerous file
      [message |-> Message("assistant", "", None, None,
            << ToolCall("call_1", "python", CommandInput("ls")),
               ToolCall("call_2", "bash", JObject(<< >>)),
               ToolCall("call_3", "bash", CommandInput("cat .env")) >>),
       usage |-> None],
      \* arguments that reached the agent as a string that is not JSON, and
      \* an unknown tool as the last call
      [message |-> Message("assistant", "", None, None,
            << ToolCall("call_1", "bash", JString("pwd")),
               ToolCall("call_2", "read_file",
                        JObject(<< JMember("path", JString("a.txt")) >>)) >>),
       usage |-> None] }

\* Err(String) of create_chat_completion
ProviderErrors == { "Unauthorized (status 401)", "internal error (status 500)" }

\* the returns of the prompt_approval callback
ApprovalAnswers == { "Ok(true)", "Ok(false)", "Err" }

\* what becomes of the children of run_bash
ChildOutcomes == { Exited(2, "a.txt\n", "ls: cannot access \"b\"") }

Init ==
    /\ config \in AgentConfigs
    /\ command = ""
    /\ policy_result = "none"
    /\ pc = "idle"
    /\ provider = DynProvider
    /\ AgentNew

\* the key of the tool call being handled, for the observers
CallKey ==
    [op |-> ops, round |-> provider_calls, idx |-> call_idx,
     call |-> tool_calls[call_idx]]

\* a call is made, and stays in flight until it returns
Started(flight, kind) == Append(flight, [kind |-> kind])

\* the call in flight of the kind returns
Returned(flight, kind) ==
    LET Other(f) == f.kind # kind
    IN  SelectSeq(flight, Other)

\* add_user_message(content)
AddUserMessage(content) ==
    /\ pc = "idle"
    /\ ops < MaxOps
    /\ messages' = Append(messages, Message("user", content, None, None, << >>))
    /\ ops' = ops + 1
    /\ UNCHANGED << thread_vars, config, tools, child, session_tokens, pc, request, tool_calls, call_idx, results,
                    command, policy_result, turn_result, provider_calls, total_calls,
                    approvals, executed, in_flight >>
    /\ UNCHANGED http_vars

\* clear() starts the session over: the token counters too
ClearResettingTokens ==
    /\ pc = "idle"
    /\ ops < MaxOps
    /\ messages' = IF messages # << >> THEN SubSeq(messages, 1, 1) ELSE messages
    /\ session_tokens' = [prompt |-> 0, completion |-> 0, total |-> 0]
    /\ ops' = ops + 1
    /\ UNCHANGED << thread_vars, config, tools, child, pc, request, tool_calls, call_idx, results,
                    command, policy_result, turn_result, provider_calls, total_calls,
                    approvals, executed, in_flight >>
    /\ UNCHANGED http_vars

\* clear() empties the history
ClearAll ==
    /\ pc = "idle"
    /\ ops < MaxOps
    /\ messages' = << >>
    /\ ops' = ops + 1
    /\ UNCHANGED << thread_vars, config, tools, child, session_tokens, pc, request, tool_calls, call_idx, results,
                    command, policy_result, turn_result, provider_calls, total_calls,
                    approvals, executed, in_flight >>
    /\ UNCHANGED http_vars

\* clear()
Clear ==
    /\ pc = "idle"
    /\ ops < MaxOps
    /\ messages' = IF messages # << >> THEN SubSeq(messages, 1, 1) ELSE messages
    /\ ops' = ops + 1
    /\ UNCHANGED << thread_vars, config, tools, child, session_tokens, pc, request, tool_calls, call_idx, results,
                    command, policy_result, turn_result, provider_calls, total_calls,
                    approvals, executed, in_flight >>
    /\ UNCHANGED http_vars

\* run_agent_turn(), up to its first create_chat_completion(request_params)
RunAgentTurn ==
    /\ pc = "idle"
    /\ ops < MaxOps
    /\ total_calls < MaxCalls
    /\ ops' = ops + 1
    /\ provider_calls' = 1
    /\ total_calls' = total_calls + 1
    /\ request' = messages
    /\ pc' = "provider"
    /\ in_flight' = Started(in_flight, "provider")
    /\ UNCHANGED << thread_vars, config, tools, child, messages, session_tokens, tool_calls, call_idx, results,
                    command, policy_result, turn_result, approvals, executed >>
    /\ UNCHANGED http_vars

\* a failing call that appends the reply under construction before returning
ProviderFailsAppending(err) ==
    /\ pc = "provider"
    /\ in_flight' = Returned(in_flight, "provider")
    /\ turn_result' = Err(map_provider_error(err))
    /\ messages' = Append(messages, Message("assistant", "", None, None, << >>))
    /\ pc' = "idle"
    /\ UNCHANGED << thread_vars, config, tools, child, session_tokens, request, tool_calls, call_idx,
                    results, command, policy_result, provider_calls, total_calls, ops,
                    approvals, executed >>

\* create_chat_completion returns Err(err): .map_err(map_provider_error)?
ProviderFails(err) ==
    /\ pc = "provider"
    /\ in_flight' = Returned(in_flight, "provider")
    /\ turn_result' = Err(map_provider_error(err))
    /\ pc' = "idle"
    /\ UNCHANGED << thread_vars, config, tools, child, messages, session_tokens, request, tool_calls, call_idx,
                    results, command, policy_result, provider_calls, total_calls, ops,
                    approvals, executed >>

\* a reply without tool calls does not end the turn: the loop calls the
\* provider again
ProviderRepliesLooping(response) ==
    /\ pc = "provider"
    /\ total_calls < MaxCalls
    /\ messages' = Append(messages, response.message)
    /\ IF response.message.tool_calls = << >>
       THEN /\ request' = messages'
            /\ provider_calls' = provider_calls + 1
            /\ total_calls' = total_calls + 1
            /\ pc' = "provider"
            /\ in_flight' = in_flight
            /\ UNCHANGED << tool_calls, call_idx, results >>
       ELSE /\ tool_calls' = response.message.tool_calls
            /\ call_idx' = 1
            /\ results' = << >>
            /\ pc' = "tools"
            /\ in_flight' = Returned(in_flight, "provider")
            /\ UNCHANGED << request, provider_calls, total_calls >>
    /\ UNCHANGED << thread_vars, config, tools, child, session_tokens, command, policy_result, turn_result, ops,
                    approvals, executed >>

\* create_chat_completion returns Ok(response): the usage is added, the
\* assistant message pushed, and the turn ends or goes on to the tool calls
ProviderReplies(response) ==
    /\ pc = "provider"
    /\ in_flight' = Returned(in_flight, "provider")
    /\ total_calls < MaxCalls \/ response.message.tool_calls = << >>
    /\ session_tokens' =
          IF response.usage = None THEN session_tokens
          ELSE LET usage == response.usage[1]
               IN  [prompt |-> I32Add(session_tokens.prompt, usage.prompt_tokens),
                    completion |->
                        I32Add(session_tokens.completion, usage.completion_tokens),
                    total |-> I32Add(session_tokens.total, usage.total_tokens)]
    /\ messages' = Append(messages, response.message)
    /\ IF response.message.tool_calls = << >>
       THEN /\ turn_result' = Ok
            /\ pc' = "idle"
            /\ UNCHANGED << tool_calls, call_idx, results >>
       ELSE /\ tool_calls' = response.message.tool_calls
            /\ call_idx' = 1
            /\ results' = << >>
            /\ pc' = "tools"
            /\ UNCHANGED turn_result
    /\ UNCHANGED << thread_vars, config, tools, child, request, command, policy_result, provider_calls,
                    total_calls, ops, approvals, executed >>

\* each result is put in front of the results of the earlier calls
PushResultInFront(message, flight) ==
    /\ results' = << message >> \o results
    /\ command' = ""
    /\ policy_result' = "none"
    /\ IF call_idx < Len(tool_calls)
       THEN /\ call_idx' = call_idx + 1
            /\ pc' = "tools"
            /\ in_flight' = flight
            /\ UNCHANGED << messages, request, provider_calls, total_calls >>
       ELSE /\ call_idx' = 0
            /\ messages' = messages \o results'
            /\ request' = messages'
            /\ provider_calls' = provider_calls + 1
            /\ total_calls' = total_calls + 1
            /\ pc' = "provider"
            /\ in_flight' = Started(flight, "provider")

\* the next request is built before the tool results are appended
PushResultAfterRequest(message, flight) ==
    /\ results' = Append(results, message)
    /\ command' = ""
    /\ policy_result' = "none"
    /\ IF call_idx < Len(tool_calls)
       THEN /\ call_idx' = call_idx + 1
            /\ pc' = "tools"
            /\ in_flight' = flight
            /\ UNCHANGED << messages, request, provider_calls, total_calls >>
       ELSE /\ call_idx' = 0
            /\ messages' = messages \o results'
            /\ request' = messages
            /\ provider_calls' = provider_calls + 1
            /\ total_calls' = total_calls + 1
            /\ pc' = "provider"
            /\ in_flight' = Started(flight, "provider")

\* the turn is over once the results of the tool calls are appended
PushResultEndingTurn(message, flight) ==
    /\ results' = Append(results, message)
    /\ command' = ""
    /\ policy_result' = "none"
    /\ in_flight' = flight
    /\ IF call_idx < Len(tool_calls)
       THEN /\ call_idx' = call_idx + 1
            /\ pc' = "tools"
            /\ UNCHANGED << messages, request, provider_calls, total_calls >>
       ELSE /\ call_idx' = 0
            /\ messages' = messages \o results'
            /\ pc' = "idle"
            /\ UNCHANGED << request, provider_calls, total_calls >>

\* results.push(message) for the call being handled; after the last call
\* handle_tool_calls returns, messages.extend(tool_results), and the loop of
\* run_agent_turn makes its next create_chat_completion(request_params)
PushResult(message, flight) ==
    /\ results' = Append(results, message)
    /\ command' = ""
    /\ policy_result' = "none"
    /\ IF call_idx < Len(tool_calls)
       THEN /\ call_idx' = call_idx + 1
            /\ pc' = "tools"
            /\ in_flight' = flight
            /\ UNCHANGED << messages, request, provider_calls, total_calls >>
       ELSE /\ call_idx' = 0
            /\ messages' = messages \o results'
            /\ request' = messages'
            /\ provider_calls' = provider_calls + 1
            /\ total_calls' = total_calls + 1
            /\ pc' = "provider"
            /\ in_flight' = Started(flight, "provider")

\* the approval callback is called for every command that is not denied
AskUnlessDenied(result) == result # "Deny"

\* match policy_result { .. PolicyResult::Ask => (self.callbacks.prompt_approval)(command) }
NeedsApproval(result) == result = "Ask"

\* an error of the callback counts as an approval
ApprovedUnlessFalse(answer) == answer # "Ok(false)"

\* match approved { Ok(true) => {} Ok(false) | Err(_) => return .. }
Approved(answer) == answer = "Ok(true)"

\* every tool is taken for the bash tool
AnyToolIsBash(name) == TRUE

\* if call.name != "bash" { .. continue; }
IsBashTool(name) == name = "bash"

\* an auto-allowed command is started and left running: the loop goes on to
\* the next call without waiting for it
HandleToolCallDetached ==
    /\ pc = "tools"
    /\ LET call == tool_calls[call_idx]
           cmd == extract_command(call.input)
           result == check_policy(cmd, config)
       IN  IF ~IsBashTool(call.name)
           THEN /\ PushResult(ToolMessage("Unknown tool: " \o call.name, call.id), in_flight)
                /\ UNCHANGED << approvals, executed >>
           ELSE IF cmd = ""
           THEN /\ PushResult(ToolMessage("No command provided.", call.id), in_flight)
                /\ UNCHANGED << approvals, executed >>
           ELSE IF result = "Deny"
           THEN /\ PushResult(ToolMessage("Command denied by policy.", call.id), in_flight)
                /\ UNCHANGED << approvals, executed >>
           ELSE IF NeedsApproval(result)
           THEN /\ command' = cmd
                /\ policy_result' = result
                /\ approvals' = Append(approvals, [key |-> CallKey, command |-> cmd,
                                                   policy |-> result,
                                                   answer |-> "pending"])
                /\ pc' = "prompt_approval"
                /\ UNCHANGED << messages, request, provider_calls, total_calls,
                                call_idx, results, executed, in_flight >>
           ELSE /\ executed' = Append(executed, [key |-> CallKey, command |-> cmd,
                                                 policy |-> result])
                /\ PushResult(ToolMessage("Command started.", call.id),
                              Started(in_flight, "run_bash"))
                /\ UNCHANGED approvals
    /\ UNCHANGED << thread_vars, config, tools, child, session_tokens, tool_calls, turn_result, ops >>
    /\ UNCHANGED http_vars

\* one iteration of the loop of handle_tool_calls, up to the first callback
\* or run_bash call of handle_bash_tool
HandleToolCall ==
    /\ pc = "tools"
    /\ LET call == tool_calls[call_idx]
           cmd == extract_command(call.input)
           result == check_policy(cmd, config)
       IN  IF ~IsBashTool(call.name)
           THEN /\ PushResult(ToolMessage("Unknown tool: " \o call.name, call.id), in_flight)
                /\ UNCHANGED << approvals, executed >>
           ELSE IF cmd = ""
           THEN /\ PushResult(ToolMessage("No command provided.", call.id), in_flight)
                /\ UNCHANGED << approvals, executed >>
           ELSE IF result = "Deny"
           THEN /\ PushResult(ToolMessage("Command denied by policy.", call.id), in_flight)
                /\ UNCHANGED << approvals, executed >>
           ELSE IF NeedsApproval(result)
           THEN /\ command' = cmd
                /\ policy_result' = result
                /\ approvals' = Append(approvals, [key |-> CallKey, command |-> cmd,
                                                   policy |-> result,
                                                   answer |-> "pending"])
                /\ pc' = "prompt_approval"
                /\ UNCHANGED << messages, request, provider_calls, total_calls,
                                call_idx, results, executed, in_flight >>
           ELSE /\ command' = cmd
                /\ policy_result' = result
                /\ executed' = Append(executed, [key |-> CallKey, command |-> cmd,
                                                 policy |-> result])
                /\ pc' = "run_bash"
                /\ in_flight' = Started(in_flight, "run_bash")
                /\ UNCHANGED << messages, request, provider_calls, total_calls,
                                call_idx, results, approvals >>
    /\ UNCHANGED << thread_vars, config, tools, child, session_tokens, tool_calls, turn_result, ops >>
    /\ UNCHANGED http_vars

\* the approval callback returns
PromptApprovalReturns(answer) ==
    /\ pc = "prompt_approval"
    /\ approvals' = [approvals EXCEPT ![Len(approvals)].answer = answer]
    /\ IF Approved(answer)
       THEN /\ executed' = Append(executed, [key |-> CallKey, command |-> command,
                                              policy |-> policy_result])
            /\ pc' = "run_bash"
            /\ in_flight' = Started(in_flight, "run_bash")
            /\ UNCHANGED << messages, request, provider_calls, total_calls, call_idx,
                            results, command, policy_result >>
       ELSE /\ PushResult(ToolMessage("User rejected command.", tool_calls[call_idx].id),
                       in_flight)
            /\ UNCHANGED executed
    /\ UNCHANGED << thread_vars, config, tools, child, session_tokens, tool_calls, turn_result, ops >>
    /\ UNCHANGED http_vars

\* run_bash returns
RunBashReturns(outcome) ==
    /\ pc = "run_bash"
    /\ child' = Some(ChildAfter(outcome))
    /\ PushResult(ToolMessage(ToolPayload(command, run_bash(outcome)),
                              tool_calls[call_idx].id),
                  Returned(in_flight, "run_bash"))
    /\ UNCHANGED << thread_vars, config, tools, session_tokens, tool_calls, turn_result, ops, approvals,
                    executed >>
    /\ UNCHANGED http_vars

Next ==
    \/ \E content \in UserContents : AddUserMessage(content)
    \/ Clear
    \/ RunAgentTurn
    \/ \E err \in ProviderErrors : ProviderFails(err) /\ UNCHANGED http_vars
    \/ \E response \in AgentReplies : ProviderReplies(response) /\ UNCHANGED http_vars
    \/ HandleToolCall
    \/ \E answer \in ApprovalAnswers : PromptApprovalReturns(answer)
    \/ \E outcome \in ChildOutcomes : RunBashReturns(outcome)

Spec == Init /\ [][Next]_vars

\* where the control thread can be
PcValues == { "idle", "provider", "tools", "prompt_approval", "run_bash" }

\* the control thread moves on inside run_agent_turn: a call it made
\* returns, or the loop of handle_tool_calls goes on to its next call
TurnProgress ==
    /\ pc # "idle"
    /\ pc' \in PcValues
    /\ call_idx' \in 0..Len(tool_calls)

\* the session when every call made inside a turn returns (the HTTP client
\* and run_bash have timeouts, the human answers) and the control thread
\* goes on; the model stops asking for tools at the latest at call MaxCalls
SpecLive == Init /\ [][Next]_vars /\ WF_<< pc, call_idx >>(TurnProgress)

(***************************************************************************)
(* run_bash under the orchestrator: every auto-allowed command of a turn   *)
(* meets each fate a child process can have.                               *)
(***************************************************************************)

\* the replies of the model: a final answer and an auto-allowed command
BashReplies == { r \in AgentReplies : r.usage = Some(Usage(7, 3, 10)) }

\* exit codes, and what the reader threads collected
ExitCodes == { 0, 2, 124 }
ChildStdouts == { "a.txt\n" }
ChildStderrs == { "", "ls: cannot access \"b\"" }

\* the errors of cmd.spawn()
SpawnErrors ==
    { "No such file or directory (os error 2)", "Permission denied (os error 13)" }

BashChildOutcomes ==
    { SpawnError(e) : e \in SpawnErrors }
    \cup { Exited(c, o, e) : c \in ExitCodes, o \in ChildStdouts, e \in ChildStderrs }
    \cup { Signaled(o, e) : o \in ChildStdouts, e \in ChildStderrs }
    \cup { StillRunning(o, e) : o \in ChildStdouts, e \in ChildStderrs }
    \cup { WaitError(o, e) : o \in ChildStdouts, e \in ChildStderrs }

InitBash ==
    /\ config = default_config
    /\ command = ""
    /\ policy_result = "none"
    /\ pc = "idle"
    /\ provider = DynProvider
    /\ AgentNew

NextBash ==
    \/ \E content \in UserContents : AddUserMessage(content)
    \/ RunAgentTurn
    \/ \E response \in BashReplies : ProviderReplies(response) /\ UNCHANGED http_vars
    \/ HandleToolCall
    \/ \E outcome \in BashChildOutcomes : RunBashReturns(outcome)

SpecBash == InitBash /\ [][NextBash]_vars

(***************************************************************************)
(* The provider adapters (core/providers/openai.rs and anthropic.rs): what *)
(* create_chat_completion makes of the HTTP response it receives.  The     *)
(* body is decoded by serde_json::from_str into the adapter's response     *)
(* struct; the messages of serde for a missing field, a duplicate field    *)
(* and a value of the wrong type are modelled, with the column serde_json  *)
(* reports for an error found at the end of a one-line body (a field       *)
(* missing from the top-level object).  A JSON array in the place of a     *)
(* struct and a body that is not JSON past its first character are outside *)
(* the covered inputs.                                                     *)
(***************************************************************************)

\* one field of a struct that derives Deserialize: its JSON key, its type,
\* and whether a missing key is an error (neither Option nor serde(default))
Field(key, type, required) == [key |-> key, type |-> type, required |-> required]

\* the response structs of the two adapters
StructFields(type) ==
    CASE type = "OpenAIResponse" ->
            << Field("choices", "Vec<OpenAIChoice>", TRUE),
               Field("usage", "Option<OpenAIUsage>", FALSE),
               Field("error", "Option<OpenAIError>", FALSE) >>
      [] type = "OpenAIChoice" ->
            << Field("message", "OpenAIResponseMessage", TRUE) >>
      [] type = "OpenAIResponseMessage" ->
            << Field("role", "String", TRUE),
               Field("content", "Option<String>", FALSE),
               Field("tool_calls", "Vec<OpenAIToolCall>", FALSE) >>
      [] type = "OpenAIToolCall" ->
            << Field("id", "String", TRUE),
               Field("type", "String", TRUE),
               Field("function", "OpenAIToolFunction", TRUE) >>
      [] type = "OpenAIToolFunction" ->
            << Field("name", "String", TRUE),
               Field("arguments", "String", TRUE) >>
      [] type = "OpenAIUsage" ->
            << Field("prompt_tokens", "i32", TRUE),
               Field("completion_tokens", "i32", TRUE),
               Field("total_tokens", "i32", TRUE) >>
      [] type = "OpenAIError" ->
            << Field("message", "Option<String>", FALSE) >>
      [] type = "AnthropicResponse" ->
            << Field("content", "Vec<AnthropicTextBlock>", TRUE),
               Field("usage", "Option<AnthropicUsage>", FALSE),
               Field("error", "Option<AnthropicError>", FALSE) >>
      [] type = "AnthropicTextBlock" ->
            << Field("type", "String", TRUE),
               Field("text", "Option<String>", FALSE),
               Field("thinking", "Option<String>", FALSE),
               Field("id", "Option<String>", FALSE),
               Field("tool_use_id", "Option<String>", FALSE),
               Field("name", "Option<String>", FALSE),
               Field("input", "Option<Value>", FALSE),
               Field("content", "Option<Value>", FALSE),
               Field("cache_control", "Option<HashMap<String, String>>", FALSE) >>
      [] type = "AnthropicUsage" ->
            << Field("input_tokens", "i32", TRUE),
               Field("output_tokens", "i32", TRUE) >>
      [] type = "AnthropicError" ->
            << Field("message", "Option<String>", FALSE) >>

\* the type argument of "Option<T>" or "Vec<T>"
TypeArgument(type, prefix) == SubSeq(type, Len(prefix) + 1, Len(type) - 1)

\* the value of a decimal digit
DigitValue(c) == CodeOf(c) - CodeOf("0")

\* the digits of text from text[i] on, added to the magnitude acc of an i32
\* of the given sign: [ok, n], ok being FALSE outside the range of i32
RECURSIVE ParseDigits(_, _, _, _)
ParseDigits(text, i, acc, negative) ==
    LET d == DigitValue(Char(text, i))
        limit == IF negative THEN (I32_MAX % 10) + 1 ELSE I32_MAX % 10
    IN  IF i > Len(text) THEN [ok |-> TRUE, n |-> acc]
        ELSE IF negative
        THEN IF -acc < I32_MAX \div 10 \/ (-acc = I32_MAX \div 10 /\ d <= limit)
             THEN ParseDigits(text, i + 1, acc * 10 - d, negative)
             ELSE [ok |-> FALSE, n |-> 0]
        ELSE IF acc < I32_MAX \div 10 \/ (acc = I32_MAX \div 10 /\ d <= limit)
             THEN ParseDigits(text, i + 1, acc * 10 + d, negative)
             ELSE [ok |-> FALSE, n |-> 0]

\* the i32 a JSON integer stands for
ParseI32(text) ==
    IF Char(text, 1) = "-" THEN ParseDigits(text, 2, 0, TRUE)
    ELSE ParseDigits(text, 1, 0, FALSE)

\* serde's "invalid type: <what was found>, expected <what>"
InvalidType(value, expected) ==
    LET found == CASE value.t = "null" -> "null"
                   [] value.t = "bool" ->
                        "boolean " \o Backquote
                        \o (IF value.b THEN "true" ELSE "false") \o Backquote
                   [] value.t = "number" ->
                        "integer " \o Backquote \o value.n \o Backquote
                   [] value.t = "string" -> "string " \o JsonQuote(value.s)
                   [] value.t = "array" -> "sequence"
                   [] value.t = "object" -> "map"
    IN  "invalid type: " \o found \o ", expected " \o expected

RECURSIVE TypeError(_, _), MembersError(_, _, _), ElementsError(_, _, _)

\* the error of deserializing a JSON value into a type, "" if there is none
TypeError(value, type) ==
    IF starts_with(type, "Option<")
    THEN IF value.t = "null" THEN "" ELSE TypeError(value, TypeArgument(type, "Option<"))
    ELSE IF starts_with(type, "Vec<")
    THEN IF value.t = "array"
         THEN ElementsError(value.items, 1, TypeArgument(type, "Vec<"))
         ELSE InvalidType(value, "a sequence")
    ELSE IF type = "Value" THEN ""
    ELSE IF type = "String"
    THEN IF value.t = "string" THEN "" ELSE InvalidType(value, "a string")
    ELSE IF type = "i32"
    THEN IF value.t # "number" THEN InvalidType(value, "i32")
         ELSE IF ParseI32(value.n).ok THEN ""
         ELSE "invalid value: integer " \o Backquote \o value.n \o Backquote
              \o ", expected i32"
    ELSE IF type = "HashMap<String, String>"
    THEN IF value.t # "object" THEN InvalidType(value, "a map")
         ELSE IF \E i \in 1..Len(value.fields) : value.fields[i].value.t # "string"
         THEN InvalidType(
                value.fields[CHOOSE i \in 1..Len(value.fields) :
                    /\ value.fields[i].value.t # "string"
                    /\ \A j \in 1..(i - 1) : value.fields[j].value.t = "string"].value,
                "a string")
         ELSE ""
    ELSE IF value.t = "object" THEN MembersError(value.fields, 1, type)
    ELSE InvalidType(value, "struct " \o type)

\* the members of an object in the order of the text, then the fields the
\* object lacks in the order of the struct
MembersError(fields, i, type) ==
    LET declared == StructFields(type)
        Missing(lacking) ==
            IF lacking = {} THEN ""
            ELSE "missing field " \o Backquote
                 \o declared[CHOOSE k \in lacking : \A l \in lacking : k <= l].key
                 \o Backquote
        Then(error) == IF error # "" THEN error ELSE MembersError(fields, i + 1, type)
        Member(hits) ==
            IF hits = {} THEN MembersError(fields, i + 1, type)
            ELSE IF \E j \in 1..(i - 1) : fields[j].key = fields[i].key
            THEN "duplicate field " \o Backquote \o fields[i].key \o Backquote
            ELSE Then(TypeError(fields[i].value, declared[CHOOSE k \in hits : TRUE].type))
    IN  IF i > Len(fields)
        THEN Missing({k \in 1..Len(declared) :
                        /\ declared[k].required
                        /\ \A j \in 1..Len(fields) : fields[j].key # declared[k].key})
        ELSE Member({k \in 1..Len(declared) : declared[k].key = fields[i].key})

ElementsError(items, i, type) ==
    LET Then(error) == IF error # "" THEN error ELSE ElementsError(items, i + 1, type)
    IN  IF i > Len(items) THEN "" ELSE Then(TypeError(items[i], type))

\* a field of a decoded struct: None for a missing key and for null
OptionField(value, key) ==
    LET Got(v) == IF v = None \/ v[1] = JNull THEN None ELSE v
    IN  Got(JGet(value, key))

\* a field of a decoded struct that is present
StructField(value, key) == JGet(value, key)[1]

\* decoded.error.and_then(|e| e.message)
ErrorMessage(decoded) ==
    LET message(e) == IF e = None THEN None ELSE OptionField(e[1], "message")
        as_string(m) == IF m = None THEN None ELSE Some(m[1].s)
    IN  as_string(message(OptionField(decoded, "error")))

\* parse_tool_input with the arguments that are not JSON dropped
parse_tool_input_dropping(raw) ==
    LET unwrap_or_default(r) == IF r.ok THEN r.v ELSE JObject(<< >>)
    IN  IF raw = "" THEN JObject(<< >>) ELSE unwrap_or_default(JsonFromStr(raw))

\* parse_tool_input(raw) of openai.rs
parse_tool_input(raw) ==
    LET unwrap_or_else(r) == IF r.ok THEN r.v ELSE JString(raw)
    IN  IF raw = "" THEN JObject(<< >>) ELSE unwrap_or_else(JsonFromStr(raw))

\* the tool calls of an OpenAI message, those of a type other than
\* "function" being skipped
RECURSIVE OpenAIToolCalls(_, _)
OpenAIToolCalls(calls, i) ==
    IF i > Len(calls) THEN << >>
    ELSE IF StructField(calls[i], "type").s # "function"
    THEN OpenAIToolCalls(calls, i + 1)
    ELSE << ToolCall(StructField(calls[i], "id").s,
                     StructField(StructField(calls[i], "function"), "name").s,
                     parse_tool_input(
                        StructField(StructField(calls[i], "function"), "arguments").s)) >>
         \o OpenAIToolCalls(calls, i + 1)

\* the Message openai.rs builds from decoded.choices.first()
OpenAIMessage(decoded) ==
    LET content(c) == IF c = None THEN "" ELSE c[1].s
        calls(c) == IF c = None THEN << >> ELSE OpenAIToolCalls(c[1].items, 1)
        FromMessage(m) ==
            Message("assistant", content(OptionField(m, "content")), None, None,
                    calls(JGet(m, "tool_calls")))
        choices == StructField(decoded, "choices").items
    IN  IF choices = << >> THEN Message("assistant", "", None, None, << >>)
        ELSE FromMessage(StructField(choices[1], "message"))

\* the Usage openai.rs builds from decoded.usage
OpenAIUsage(decoded) ==
    LET FromUsage(u) ==
            IF u = None THEN None
            ELSE Some(Usage(ParseI32(StructField(u[1], "prompt_tokens").n).n,
                            ParseI32(StructField(u[1], "completion_tokens").n).n,
                            ParseI32(StructField(u[1], "total_tokens").n).n))
    IN  FromUsage(OptionField(decoded, "usage"))

\* the parts anthropic.rs collects from the blocks of decoded.content:
\* the strings of the blocks of one type that carry the field
RECURSIVE AnthropicParts(_, _, _, _)
AnthropicParts(blocks, i, block_type, field) ==
    LET part(p) == IF p = None THEN "" ELSE p[1].s
    IN  IF i > Len(blocks) THEN ""
        ELSE IF StructField(blocks[i], "type").s # block_type
        THEN AnthropicParts(blocks, i + 1, block_type, field)
        ELSE part(OptionField(blocks[i], field))
             \o AnthropicParts(blocks, i + 1, block_type, field)

\* the tool calls: the "tool_use" blocks that have an id, a name and an input
RECURSIVE AnthropicToolCalls(_, _)
AnthropicToolCalls(blocks, i) ==
    LET call(id, name, input) ==
            IF id = None \/ name = None \/ input = None THEN << >>
            ELSE << ToolCall(id[1].s, name[1].s, input[1]) >>
    IN  IF i > Len(blocks) THEN << >>
        ELSE IF StructField(blocks[i], "type").s # "tool_use"
        THEN AnthropicToolCalls(blocks, i + 1)
        ELSE call(OptionField(blocks[i], "id"), OptionField(blocks[i], "name"),
                  OptionField(blocks[i], "input"))
             \o AnthropicToolCalls(blocks, i + 1)

\* whether a block of the type carries the field
HasPart(blocks, block_type, field) ==
    \E i \in 1..Len(blocks) :
        /\ StructField(blocks[i], "type").s = block_type
        /\ OptionField(blocks[i], field) # None

\* the Message anthropic.rs builds from decoded.content
AnthropicMessage(decoded) ==
    LET FromBlocks(blocks) ==
            Message("assistant", AnthropicParts(blocks, 1, "text", "text"),
                    IF HasPart(blocks, "thinking", "thinking")
                    THEN Some(AnthropicParts(blocks, 1, "thinking", "thinking"))
                    ELSE None,
                    None, AnthropicToolCalls(blocks, 1))
    IN  FromBlocks(StructField(decoded, "content").items)

\* the Usage anthropic.rs builds from decoded.usage
AnthropicUsage(decoded) ==
    LET Sum(input, output) == Usage(input, output, I32Add(input, output))
        FromUsage(u) ==
            IF u = None THEN None
            ELSE Some(Sum(ParseI32(StructField(u[1], "input_tokens").n).n,
                          ParseI32(StructField(u[1], "output_tokens").n).n))
    IN  FromUsage(OptionField(decoded, "usage"))

\* Result<ChatResponse, String>
ChatOk(message, usage) ==
    [ok |-> TRUE, response |-> [message |-> message, usage |-> usage], err |-> ""]
ChatErr(err) ==
    [ok |-> FALSE,
     response |-> [message |-> Message("assistant", "", None, None, << >>),
                   usage |-> None],
     err |-> err]

\* StatusCode::is_success
is_success(status) == status >= 200 /\ status <= 299

\* the message of serde_json for a body that is not JSON: empty, or not a
\* value from its first character on
SyntaxError(body) ==
    IF body = "" THEN "EOF while parsing a value at line 1 column 0"
    ELSE "expected value at line 1 column 1"

\* create_chat_completion from the response on: the body is decoded, then
\* the status is looked at, then the error member, then the reply is built
HandleResponse(schema_type, status, body) ==
    LET Failed(message) ==
            IF message # None
            THEN ChatErr(message[1] \o " (status " \o ToString(status) \o ")")
            ELSE ChatErr("request failed with status " \o ToString(status))
        Succeeded(decoded, message) ==
            IF message # None THEN ChatErr(message[1])
            ELSE IF schema_type = "OpenAI"
            THEN ChatOk(OpenAIMessage(decoded), OpenAIUsage(decoded))
            ELSE ChatOk(AnthropicMessage(decoded), AnthropicUsage(decoded))
        Decoded(decoded, error) ==
            IF error # ""
            THEN ChatErr("Invalid response: " \o error \o " at line 1 column "
                         \o ToString(Len(body)))
            ELSE IF ~is_success(status) THEN Failed(ErrorMessage(decoded))
            ELSE Succeeded(decoded, ErrorMessage(decoded))
        Parsed(r) ==
            IF ~r.ok THEN ChatErr("Invalid response: " \o SyntaxError(body))
            ELSE Decoded(r.v, TypeError(r.v, schema_type \o "Response"))
    IN  Parsed(JsonFromStr(body))

(***************************************************************************)
(* The requests of the adapters: serde_json::to_string of a Value, and the *)
(* request_params each adapter builds from the messages and the tools.     *)
(* model, max_tokens and temperature are left out.                         *)
(***************************************************************************)

\* the entries of a serde_json::Map: one per key, the value inserted last
MapEntries(value) ==
    LET Last(i) == \A j \in (i + 1)..Len(value.fields) :
                        value.fields[j].key # value.fields[i].key
        Pick(kept) == [n \in 1..Len(kept) |-> value.fields[kept[n]]]
        Indices == [i \in 1..Len(value.fields) |-> i]
    IN  Pick(SelectSeq(Indices, Last))

\* a number as serde_json writes it: an integer by its digits
NumberToString(n) == IF n = "-0" THEN "-0.0" ELSE n

\* serde_json::to_string(&value)
RECURSIVE JsonToString(_), JsonMembersToString(_, _), JsonItemsToString(_, _)
JsonToString(value) ==
    IF value.t = "null" THEN "null"
    ELSE IF value.t = "bool" THEN (IF value.b THEN "true" ELSE "false")
    ELSE IF value.t = "number" THEN NumberToString(value.n)
    ELSE IF value.t = "string" THEN JsonQuote(value.s)
    ELSE IF value.t = "array" THEN "[" \o JsonItemsToString(value.items, 1) \o "]"
    ELSE "{" \o JsonMembersToString(MapEntries(value), 1) \o "}"

JsonMembersToString(entries, i) ==
    IF i > Len(entries) THEN ""
    ELSE (IF i > 1 THEN "," ELSE "")
         \o JsonQuote(entries[i].key) \o ":" \o JsonToString(entries[i].value)
         \o JsonMembersToString(entries, i + 1)

JsonItemsToString(items, i) ==
    IF i > Len(items) THEN ""
    ELSE (IF i > 1 THEN "," ELSE "") \o JsonToString(items[i])
         \o JsonItemsToString(items, i + 1)

\* the indentation of serde_json's PrettyFormatter: two spaces a level
RECURSIVE Indent(_)
Indent(level) == IF level = 0 THEN "" ELSE "  " \o Indent(level - 1)

\* serde_json::to_string_pretty(&value), the value being at the level
RECURSIVE JsonPretty(_, _), JsonPrettyMembers(_, _, _), JsonPrettyItems(_, _, _)
JsonPretty(value, level) ==
    IF value.t = "array" THEN
        IF value.items = << >> THEN "[]"
        ELSE "[\n" \o JsonPrettyItems(value.items, 1, level + 1)
             \o "\n" \o Indent(level) \o "]"
    ELSE IF value.t = "object" THEN
        IF value.fields = << >> THEN "{}"
        ELSE "{\n" \o JsonPrettyMembers(MapEntries(value), 1, level + 1)
             \o "\n" \o Indent(level) \o "}"
    ELSE JsonToString(value)

JsonPrettyMembers(entries, i, level) ==
    IF i > Len(entries) THEN ""
    ELSE (IF i > 1 THEN ",\n" ELSE "") \o Indent(level)
         \o JsonQuote(entries[i].key) \o ": " \o JsonPretty(entries[i].value, level)
         \o JsonPrettyMembers(entries, i + 1, level)

JsonPrettyItems(items, i, level) ==
    IF i > Len(items) THEN ""
    ELSE (IF i > 1 THEN ",\n" ELSE "") \o Indent(level) \o JsonPretty(items[i], level)
         \o JsonPrettyItems(items, i + 1, level)

\* a Tool as serde writes it: name, description, input_schema
ToolValue(tool) ==
    JObject(<< JMember("name", JString(tool.name)),
               JMember("description", JString(tool.description)),
               JMember("input_schema", tool.input_schema) >>)

\* serde_json::to_string_pretty(&params.tools)
ToolsSummary(registry) ==
    JsonPretty(JArray([i \in 1..Len(registry) |-> ToolValue(registry[i])]), 0)

\* format_tools_summary(has_system, tools_summary)
format_tools_summary(has_system, tools_summary) ==
    IF has_system THEN "\n\n## Available Tools\n\n" \o tools_summary
    ELSE "## Available Tools\n\n" \o tools_summary

\* Some(HashMap::from([("type", "ephemeral")]))
Ephemeral == Some(JObject(<< JMember("type", JString("ephemeral")) >>))

\* an AnthropicTextBlock as serde writes it: the type, then the members
\* that are Some (skip_serializing_if = "Option::is_none")
AnthropicTextBlock(block_type, members) ==
    LET IsSome(m) == m.value # None
        Object(kept) ==
            JObject(<< JMember("type", JString(block_type)) >>
                    \o [i \in 1..Len(kept) |-> JMember(kept[i].key, kept[i].value[1])])
    IN  Object(SelectSeq(members, IsSome))

\* Some(text) of a String member, None staying None
SomeString(text) == IF text = None THEN None ELSE Some(JString(text[1]))

\* struct AnthropicMessage of a request
AnthropicRequestMessage(role, content) == [role |-> role, content |-> content]

\* the position (from 1) of the last message that is not of the assistant,
\* 0 when there is none: last_cacheable_index
LastCacheable(filtered) ==
    LET hits == {i \in 1..Len(filtered) : filtered[i].role # "assistant"}
    IN  IF hits = {} THEN 0 ELSE CHOOSE i \in hits : \A j \in hits : j <= i

\* the blocks with the tool calls from the last to the first
ToolUseBlocksReversed(message) ==
    (IF message.content # ""
     THEN << AnthropicTextBlock("text",
                << JMember("text", Some(JString(message.content))) >>) >>
     ELSE << >>)
    \o [i \in 1..Len(message.tool_calls) |->
            AnthropicTextBlock("tool_use",
                << JMember("id", Some(JString(
                        message.tool_calls[Len(message.tool_calls) + 1 - i].id))),
                   JMember("name", Some(JString(
                        message.tool_calls[Len(message.tool_calls) + 1 - i].name))),
                   JMember("input", Some(
                        message.tool_calls[Len(message.tool_calls) + 1 - i].input)) >>)]

\* the blocks of an assistant message that carries tool calls
ToolUseBlocks(message) ==
    (IF message.content # ""
     THEN << AnthropicTextBlock("text",
                << JMember("text", Some(JString(message.content))) >>) >>
     ELSE << >>)
    \o [i \in 1..Len(message.tool_calls) |->
            AnthropicTextBlock("tool_use",
                << JMember("id", Some(JString(message.tool_calls[i].id))),
                   JMember("name", Some(JString(message.tool_calls[i].name))),
                   JMember("input", Some(message.tool_calls[i].input)) >>)]

\* to_anthropic_messages(messages, enable_message_cache): the system blocks
\* and the messages of the request
to_anthropic_messages(history, enable_message_cache) ==
    LET IsSystem(m) == m.role = "system"
        NotSystem(m) == m.role # "system"
        Contents(list) == [i \in 1..Len(list) |-> list[i].content]
        SystemBlocks(system_text) ==
            IF system_text # ""
            THEN << AnthropicTextBlock("text",
                        << JMember("text", Some(JString(system_text))),
                           JMember("cache_control", Ephemeral) >>) >>
            ELSE << >>
        Cache(should_cache) == IF should_cache THEN Ephemeral ELSE None
        Out(message, should_cache) ==
            IF message.role = "tool" THEN
                AnthropicRequestMessage("user",
                    JArray(<< AnthropicTextBlock("tool_result",
                        << JMember("tool_use_id", SomeString(message.tool_call_id)),
                           JMember("content", Some(JString(message.content))),
                           JMember("cache_control", Cache(should_cache)) >>) >>))
            ELSE IF message.role = "assistant" THEN
                IF message.tool_calls # << >>
                THEN AnthropicRequestMessage("assistant", JArray(ToolUseBlocks(message)))
                ELSE AnthropicRequestMessage("assistant", JString(message.content))
            ELSE IF should_cache /\ message.role = "user" THEN
                AnthropicRequestMessage("user",
                    JArray(<< AnthropicTextBlock("text",
                        << JMember("text", Some(JString(message.content))),
                           JMember("cache_control", Ephemeral) >>) >>))
            ELSE AnthropicRequestMessage(message.role, JString(message.content))
        Messages(filtered, last_cacheable) ==
            [i \in 1..Len(filtered) |->
                Out(filtered[i], enable_message_cache /\ i = last_cacheable)]
        Filtered(filtered) == Messages(filtered, LastCacheable(filtered))
    IN  [system |-> SystemBlocks(trim(join(Contents(SelectSeq(history, IsSystem)),
                                           "\n\n"))),
         messages |-> Filtered(SelectSeq(history, NotSystem))]

\* to_anthropic_tools(tools)
to_anthropic_tools(registry) ==
    [i \in 1..Len(registry) |->
        [name |-> registry[i].name, description |-> registry[i].description,
         input_schema |-> registry[i].input_schema]]

\* the request without the block of the tools summary
AnthropicRequestBare(history, registry, enable_message_cache) ==
    LET Request(encoded) ==
            [system |-> encoded.system,
             messages |-> encoded.messages,
             tools |-> to_anthropic_tools(registry),
             tool_choice |-> "auto",
             stream |-> FALSE]
    IN  Request(to_anthropic_messages(history, enable_message_cache))

\* the AnthropicRequest of create_chat_completion: the block of the tools
\* summary is pushed after the system blocks of the messages
AnthropicRequest(history, registry, enable_message_cache) ==
    LET Request(encoded) ==
            [system |-> Append(encoded.system,
                AnthropicTextBlock("text",
                    << JMember("text", Some(JString(
                            format_tools_summary(encoded.system # << >>,
                                                 ToolsSummary(registry))))),
                       JMember("cache_control", Ephemeral) >>)),
             messages |-> encoded.messages,
             tools |-> to_anthropic_tools(registry),
             tool_choice |-> "auto",
             stream |-> FALSE]
    IN  Request(to_anthropic_messages(history, enable_message_cache))

\* the arguments taken from an input that is a string, "{}" for any other
OpenAIToolCallAsStr(call) ==
    [id |-> call.id, type |-> "function",
     function |-> [name |-> call.name,
                   arguments |-> IF call.input.t = "string" THEN call.input.s ELSE "{}"]]

\* struct OpenAIToolCall of a request, the arguments being the text of the input
OpenAIToolCall(call) ==
    [id |-> call.id, type |-> "function",
     function |-> [name |-> call.name, arguments |-> JsonToString(call.input)]]

\* struct OpenAIMessage of a request
OpenAIRequestMessage(role, content, tool_call_id, calls) ==
    [role |-> role, content |-> content, tool_call_id |-> tool_call_id,
     tool_calls |-> calls]

\* to_openai_messages(messages)
to_openai_messages(history) ==
    LET Calls(calls) == [i \in 1..Len(calls) |-> OpenAIToolCall(calls[i])]
        Out(message) ==
            IF message.role = "tool"
            THEN OpenAIRequestMessage("tool", message.content, message.tool_call_id,
                                      << >>)
            ELSE IF message.role = "assistant"
            THEN OpenAIRequestMessage("assistant", message.content, None,
                                      Calls(message.tool_calls))
            ELSE OpenAIRequestMessage(message.role, message.content, None, << >>)
    IN  [i \in 1..Len(history) |-> Out(history[i])]

\* to_openai_tools(tools)
to_openai_tools(registry) ==
    [i \in 1..Len(registry) |->
        [type |-> "function",
         function |-> [name |-> registry[i].name,
                       description |-> registry[i].description,
                       parameters |-> registry[i].input_schema]]]

\* the OpenAIRequest of create_chat_completion
OpenAIRequest(history, registry) ==
    [messages |-> to_openai_messages(history),
     tools |-> to_openai_tools(registry),
     tool_choice |-> "auto"]

\* request_params of the adapter; the message cache is on for every
\* provider but "minimax"
EncodeRequest(schema_type, history, registry) ==
    IF schema_type = "OpenAI" THEN OpenAIRequest(history, registry)
    ELSE AnthropicRequest(history, registry, TRUE)

(***************************************************************************)
(* The orchestrator over an adapter: create_chat_completion as its HTTP    *)
(* exchange.  While pc is "provider" the adapter parses its base_url,      *)
(* sends the request (http_pending) and handles what comes back.  The      *)
(* encoding of the request is taken to succeed.                            *)
(***************************************************************************)

\* Url::parse(&self.base_url) succeeds: the text starts with a scheme
\* (a letter, then letters, digits, "+", "-" or ".", then ":")
UrlParses(url) ==
    \E i \in 2..Len(url) :
        /\ Char(url, i) = ":"
        /\ IsAlnum(Char(url, 1)) /\ ~IsDigit(Char(url, 1))
        /\ \A j \in 2..(i - 1) : IsAlnum(Char(url, j)) \/ Char(url, j) \in {"+", "-", "."}

\* str.trim_end_matches('/')
trim_end_matches_slash(str) ==
    LET Kept == { i \in 0..Len(str) : \A j \in (i + 1)..Len(str) : Char(str, j) = "/" }
    IN  SubSeq(str, 1, CHOOSE i \in Kept : \A j \in Kept : i <= j)

\* str.strip_suffix(suffix): Some(the rest) or None
strip_suffix(str, suffix) ==
    IF /\ Len(str) >= Len(suffix)
       /\ SubSeq(str, Len(str) - Len(suffix) + 1, Len(str)) = suffix
    THEN Some(SubSeq(str, 1, Len(str) - Len(suffix)))
    ELSE None

\* normalize_anthropic_base_url(base_url)
normalize_anthropic_base_url(base_url) ==
    LET Normalized(trimmed, stripped) == IF stripped # None THEN stripped[1] ELSE trimmed
        Stripping(trimmed) == Normalized(trimmed, strip_suffix(trimmed, "/v1"))
    IN  Stripping(trim_end_matches_slash(base_url))

\* OpenAIProvider::new(cfg) keeps cfg.base_url, AnthropicProvider::new(cfg)
\* normalizes it
create_provider(schema_type, base_url) ==
    [schema_type |-> schema_type,
     base_url |-> IF schema_type = "Anthropic"
                  THEN normalize_anthropic_base_url(base_url)
                  ELSE base_url]

\* Url::parse(url) of an http or https URL without query and fragment: the
\* scheme, the authority behind "//", and the path, which is "/" when the
\* text has none
UrlParse(url) ==
    LET First(set) == CHOOSE i \in set : \A j \in set : i <= j
        Split(colon) ==
            LET start == colon + 3
                slashes == { i \in start..Len(url) : Char(url, i) = "/" }
                stop == IF slashes = {} THEN Len(url) + 1 ELSE First(slashes)
            IN  [scheme |-> SubSeq(url, 1, colon - 1),
                 authority |-> SubSeq(url, start, stop - 1),
                 path |-> IF slashes = {} THEN "/" ELSE SubSeq(url, stop, Len(url))]
    IN  Split(First({ i \in 1..Len(url) : Char(url, i) = ":" }))

\* base.join(relative) for a relative path that does not start with "/":
\* the last segment of the path of the base (what stands behind its last
\* "/") is dropped and the relative path is put in its place
UrlJoin(base, relative) ==
    LET last == CHOOSE i \in 1..Len(base.path) :
                    /\ Char(base.path, i) = "/"
                    /\ \A j \in (i + 1)..Len(base.path) : Char(base.path, j) # "/"
    IN  [base EXCEPT !.path = SubSeq(base.path, 1, last) \o relative]

\* the URL as text
UrlToString(url) == url.scheme \o "://" \o url.authority \o url.path

\* Url::parse(&self.base_url).and_then(|base| base.join(..)) of the adapters
Endpoint(schema_type, base_url) ==
    UrlToString(UrlJoin(UrlParse(base_url),
                        IF schema_type = "OpenAI" THEN "chat/completions"
                        ELSE "v1/messages"))

\* the adapters of create_provider(cfg), one with a base_url that is not a URL
Providers ==
    { [schema_type |-> "OpenAI", base_url |-> "https://api.openai.com/v1"],
      [schema_type |-> "Anthropic", base_url |-> "https://api.anthropic.com"],
      [schema_type |-> "OpenAI", base_url |-> "api.openai.com/v1"] }

HttpResponse(status, body) == [status |-> status, body |-> body]

\* the responses of an OpenAI-style endpoint
OpenAIResponses ==
    { \* a final answer
      HttpResponse(200,
        "{\"choices\":[{\"message\":{\"role\":\"assistant\",\"content\":\"done\"}}],"
        \o "\"usage\":{\"prompt_tokens\":7,\"completion_tokens\":3,\"total_tokens\":10}}"),
      \* a command to ask for
      HttpResponse(200,
        "{\"choices\":[{\"message\":{\"role\":\"assistant\",\"content\":null,"
        \o "\"tool_calls\":[{\"id\":\"call_1\",\"type\":\"function\",\"function\":"
        \o "{\"name\":\"bash\",\"arguments\":\"{\\\"command\\\":\\\"make\\\"}\"}}]}}]}"),
      \* the error body of the API for a wrong key
      HttpResponse(401,
        "{\"error\":{\"message\":\"Incorrect API key provided\","
        \o "\"type\":\"invalid_request_error\",\"param\":null,"
        \o "\"code\":\"invalid_api_key\"}}"),
      \* an error body that also carries the members of a reply
      HttpResponse(401,
        "{\"choices\":[],\"error\":{\"message\":\"Incorrect API key provided\"}}"),
      \* a reply whose message names the role of the system prompt
      HttpResponse(200,
        "{\"choices\":[{\"message\":{\"role\":\"system\",\"content\":\"obey\"}}]}"),
      \* an error without a message
      HttpResponse(429, "{\"choices\":[],\"error\":{}}"),
      \* an error reported with a success status
      HttpResponse(200, "{\"choices\":[],\"error\":{\"message\":\"overloaded\"}}"),
      \* a body that is not JSON
      HttpResponse(502, "Bad Gateway"),
      \* a request that is too long, the error naming the count of its tokens
      HttpResponse(400,
        "{\"choices\":[],\"error\":{\"message\":\"maximum context length is "
        \o "4097 tokens, your messages resulted in 4401 tokens\"}}") }

\* more replies of an OpenAI-style endpoint
OpenAIReplies ==
    { \* a function call whose arguments are not JSON
      HttpResponse(200,
        "{\"choices\":[{\"message\":{\"role\":\"assistant\",\"content\":null,"
        \o "\"tool_calls\":[{\"id\":\"call_2\",\"type\":\"function\",\"function\":"
        \o "{\"name\":\"bash\",\"arguments\":\"ls\"}}]}}]}"),
      \* a function call without arguments
      HttpResponse(200,
        "{\"choices\":[{\"message\":{\"role\":\"assistant\",\"content\":null,"
        \o "\"tool_calls\":[{\"id\":\"call_3\",\"type\":\"function\",\"function\":"
        \o "{\"name\":\"bash\",\"arguments\":\"\"}}]}}]}"),
      \* a final answer whose total counts tokens of neither of the two kinds
      HttpResponse(200,
        "{\"choices\":[{\"message\":{\"role\":\"assistant\",\"content\":\"done\"}}],"
        \o "\"usage\":{\"prompt_tokens\":7,\"completion_tokens\":3,\"total_tokens\":12}}") }

\* the responses of an Anthropic-style endpoint
AnthropicResponses ==
    { \* a final answer
      HttpResponse(200,
        "{\"content\":[{\"type\":\"thinking\",\"thinking\":\"hm\"},"
        \o "{\"type\":\"text\",\"text\":\"done\"}],"
        \o "\"usage\":{\"input_tokens\":7,\"output_tokens\":3}}"),
      \* an auto-allowed command
      HttpResponse(200,
        "{\"content\":[{\"type\":\"tool_use\",\"id\":\"toolu_1\",\"name\":\"bash\","
        \o "\"input\":{\"command\":\"ls\"}}]}"),
      \* the error body of the API for a wrong key
      HttpResponse(401,
        "{\"type\":\"error\",\"error\":{\"type\":\"authentication_error\","
        \o "\"message\":\"invalid x-api-key\"}}"),
      \* an error body that also carries the members of a reply
      HttpResponse(401,
        "{\"content\":[],\"error\":{\"message\":\"invalid x-api-key\"}}") }

HttpResponses(schema_type) ==
    IF schema_type = "OpenAI" THEN OpenAIResponses ELSE AnthropicResponses

\* the errors of reqwest: of send() and of text()
TransportErrors ==
    { "Request failed: error sending request for url",
      "Failed to read response: error decoding response body" }

InitProvider ==
    /\ config = default_config
    /\ command = ""
    /\ policy_result = "none"
    /\ pc = "idle"
    /\ provider \in Providers
    /\ AgentNew

\* Url::parse(&self.base_url) fails: create_chat_completion returns before
\* any request is sent
InvalidBaseUrl ==
    /\ ~http_pending
    /\ ~UrlParses(provider.base_url)
    /\ ProviderFails("Invalid base_url: relative URL without a base")
    /\ UNCHANGED http_vars

\* req.body(payload).send()
SendRequest ==
    /\ pc = "provider"
    /\ ~http_pending
    /\ UrlParses(provider.base_url)
    /\ http_pending' = TRUE
    /\ http_requests' = http_requests + 1
    /\ http_response' = None
    /\ http_request' = Some(EncodeRequest(provider.schema_type, request, tools))
    /\ endpoint' = Some(Endpoint(provider.schema_type, provider.base_url))
    /\ UNCHANGED << thread_vars, config, tools, child, messages, session_tokens, pc, request, tool_calls,
                    call_idx, results, command, policy_result, turn_result,
                    provider_calls, total_calls, ops, approvals, executed,
                    provider, in_flight >>

\* the request is sent again after a transport error
TransportFailsRetrying(err) ==
    /\ pc = "provider"
    /\ http_pending
    /\ http_requests <= MaxCalls
    /\ http_requests' = http_requests + 1
    /\ UNCHANGED << thread_vars, config, tools, child, messages, session_tokens, pc, request, tool_calls,
                    call_idx, results, command, policy_result, turn_result,
                    provider_calls, total_calls, ops, approvals, executed,
                    provider, http_pending, http_response, http_request, endpoint,
                    in_flight >>

\* send() or text() returns an error
TransportFails(err) ==
    /\ http_pending
    /\ http_pending' = FALSE
    /\ ProviderFails(err)
    /\ UNCHANGED << provider, http_requests, http_response, http_request, endpoint >>

\* the response arrives and create_chat_completion returns what
\* HandleResponse makes of it
HttpResponds(response) ==
    LET Returns(r) == IF r.ok THEN ProviderReplies(r.response) ELSE ProviderFails(r.err)
    IN  /\ http_pending
        /\ http_pending' = FALSE
        /\ http_response' = Some(response)
        /\ Returns(HandleResponse(provider.schema_type, response.status, response.body))
        /\ UNCHANGED << provider, http_requests, http_request, endpoint >>

NextProvider ==
    \/ \E content \in UserContents : AddUserMessage(content)
    \/ Clear
    \/ RunAgentTurn
    \/ InvalidBaseUrl
    \/ SendRequest
    \/ \E err \in TransportErrors : TransportFails(err)
    \/ \E response \in HttpResponses(provider.schema_type) : HttpResponds(response)
    \/ HandleToolCall
    \/ \E answer \in ApprovalAnswers : PromptApprovalReturns(answer)
    \/ \E outcome \in ChildOutcomes : RunBashReturns(outcome)

SpecProvider == InitProvider /\ [][NextProvider]_vars

(***************************************************************************)
(* Properties of the classifier (checked under SpecPolicy).                *)
(***************************************************************************)

\* the tiers of the ladder, stated on the text of the command
Classified == policy_result # "none"

ShellMetaChars == {"|", ";", "&", Backquote, "$", "(", ")"}

HasMetaChar(text) == \E i \in 1..Len(text) : Char(text, i) \in ShellMetaChars

PatternMatches(pattern, text) ==
    LET re == RegexNew(pattern) IN re.ok /\ is_match(re, text)

BuiltinDenyTable ==
    [i \in 1..Len(BUILTIN_DENY_PATTERNS) |-> RegexNew(BUILTIN_DENY_PATTERNS[i])]

DangerousFileTable ==
    [i \in 1..Len(DANGEROUS_FILE_PATTERNS) |-> RegexNew(DANGEROUS_FILE_PATTERNS[i])]

MatchesBuiltinDeny(text) ==
    \E i \in 1..Len(BUILTIN_DENY_PATTERNS) :
        BuiltinDenyTable[i].ok /\ is_match(BuiltinDenyTable[i], text)

MatchesConfiguredDeny(text, cfg) ==
    \E i \in 1..Len(cfg.policy.deny_patterns) :
        PatternMatches(cfg.policy.deny_patterns[i], text)

MatchesDeny(text, cfg) == MatchesBuiltinDeny(text) \/ MatchesConfiguredDeny(text, cfg)

NamesDangerousFile(text) ==
    \E i \in 1..Len(DANGEROUS_FILE_PATTERNS) :
        DangerousFileTable[i].ok /\ is_match(DangerousFileTable[i], text)

\* the first whitespace-delimited token of the command, and all that follows it
FirstToken(text) == LET t == trim(text) IN SubSeq(t, 1, TokenLen(t, 1))

ArgumentTail(text) ==
    LET t == trim(text) IN trim_start(SubSeq(t, TokenLen(t, 1) + 1, Len(t)))

InAutoList(text, cfg) ==
    \E a \in {BUILTIN_AUTO_COMMANDS[i] : i \in 1..Len(BUILTIN_AUTO_COMMANDS)}
             \cup {cfg.policy.auto_commands[i] : i \in 1..Len(cfg.policy.auto_commands)} :
        text = a \/ starts_with(text, a \o " ")

\* C3: a command that matches a builtin or a configured deny pattern is Deny,
\* whatever the auto-allow lists, the metacharacters and default_action are
\* (the match is on the trimmed command; for the builtin patterns also on the
\* command as given)
C3_DenyPatternIsDeny ==
    Classified =>
        ((MatchesDeny(trim(command), config) \/ MatchesBuiltinDeny(command))
            => policy_result = "Deny")

\* a denied command that is on the auto-allow list and has a metacharacter
C3_Witness ==
    /\ policy_result = "Deny"
    /\ MatchesDeny(trim(command), config)
    /\ InAutoList(trim(command), config)
    /\ HasMetaChar(command)
    /\ config.policy.default_action = "ask"

\* C4: the result is that of the first matching tier, in the order deny pattern
\* (Deny), dangerous file (Deny), metacharacter (Ask), auto-allow (Auto),
\* default action
C4_FirstMatchingTier ==
    Classified =>
        policy_result =
            IF MatchesDeny(trim(command), config) THEN "Deny"
            ELSE IF NamesDangerousFile(ArgumentTail(command)) THEN "Deny"
            ELSE IF HasMetaChar(command) THEN "Ask"
            ELSE IF InAutoList(trim(command), config) THEN "Auto"
            ELSE IF config.policy.default_action = "deny" THEN "Deny"
            ELSE "Ask"

\* the dangerous-file tier decides although the metacharacter tier and the
\* auto-allow tier match too
C4_Witness ==
    /\ policy_result = "Deny"
    /\ ~MatchesDeny(trim(command), config)
    /\ NamesDangerousFile(ArgumentTail(command))
    /\ HasMetaChar(command)
    /\ InAutoList(trim(command), config)
    /\ config.policy.default_action = "ask"

\* C5: a command with a shell metacharacter is never Auto, and is Ask when no
\* deny pattern and no dangerous-file pattern matches
C5_MetaCharNeverAuto ==
    (Classified /\ HasMetaChar(command)) =>
        /\ policy_result # "Auto"
        /\ (~MatchesDeny(trim(command), config)
            /\ ~NamesDangerousFile(ArgumentTail(command))) => policy_result = "Ask"

\* an auto-allowed command with a metacharacter is Ask, also under "deny"
C5_Witness ==
    /\ policy_result = "Ask"
    /\ HasMetaChar(command)
    /\ InAutoList(trim(command), config)
    /\ config.policy.default_action = "deny"

\* C6: the dangerous-file patterns are matched against the argument tail only:
\* a tail that names a dangerous file is Deny, and a first token that matches a
\* pattern does not make the command Deny
C6_DangerousFileOnArgumentTail ==
    Classified =>
        /\ NamesDangerousFile(ArgumentTail(command)) => policy_result = "Deny"
        /\ (/\ ~NamesDangerousFile(ArgumentTail(command))
            /\ ~MatchesDeny(trim(command), config))
              => policy_result =
                    IF HasMetaChar(command) THEN "Ask"
                    ELSE IF InAutoList(trim(command), config) THEN "Auto"
                    ELSE IF config.policy.default_action = "deny" THEN "Deny"
                    ELSE "Ask"

\* the first token matches a dangerous-file pattern and the command is not Deny
C6_Witness ==
    /\ Classified
    /\ NamesDangerousFile(FirstToken(command))
    /\ ~NamesDangerousFile(ArgumentTail(command))
    /\ policy_result # "Deny"

\* C7: with the builtin lists only and default_action "ask": "ls -la" is Auto,
\* "cat .env" is Deny, "echo hi && ls" is Ask, "ls; rm -rf /" is Deny
C7_BuiltinExamples ==
    (Classified /\ config = default_config) =>
        /\ command = "ls -la" => policy_result = "Auto"
        /\ command = "cat .env" => policy_result = "Deny"
        /\ command = "echo hi && ls" => policy_result = "Ask"
        /\ command = "ls; rm -rf /" => policy_result = "Deny"

C7_Witness ==
    /\ config = default_config
    /\ command = "ls; rm -rf /"
    /\ policy_result = "Deny"

\* C8: when no tier matches, the result is Deny for default_action "deny" and
\* Ask for every other value
C8_DefaultAction ==
    (/\ Classified
     /\ ~MatchesDeny(trim(command), config)
     /\ ~NamesDangerousFile(ArgumentTail(command))
     /\ ~HasMetaChar(command)
     /\ ~InAutoList(trim(command), config))
        => policy_result =
              IF config.policy.default_action = "deny" THEN "Deny" ELSE "Ask"

\* the fallback with a default_action that is neither "ask" nor "deny"
C8_Witness ==
    /\ policy_result = "Ask"
    /\ ~MatchesDeny(trim(command), config)
    /\ ~NamesDangerousFile(ArgumentTail(command))
    /\ ~HasMetaChar(command)
    /\ ~InAutoList(trim(command), config)
    /\ config.policy.default_action \notin {"ask", "deny"}

\* the configuration without the deny patterns that do not compile
WithoutBadPatterns(cfg) ==
    [cfg EXCEPT !.policy.deny_patterns =
        SelectSeq(cfg.policy.deny_patterns, LAMBDA pat : RegexNew(pat).ok)]

HasBadPattern(cfg) ==
    \E i \in 1..Len(cfg.policy.deny_patterns) : ~RegexNew(cfg.policy.deny_patterns[i]).ok

\* C9: check_policy always returns a PolicyResult, and a configured deny
\* pattern that does not compile is skipped: the result is the one obtained
\* with that pattern removed from the configuration
C9_TotalAndBadPatternSkipped ==
    Classified =>
        /\ policy_result \in PolicyResult
        /\ policy_result = check_policy(command, WithoutBadPatterns(config))

\* a bad pattern is followed by a good one that decides the command
C9_Witness ==
    /\ policy_result = "Deny"
    /\ HasBadPattern(config)
    /\ ~RegexNew(config.policy.deny_patterns[1]).ok
    /\ ~MatchesBuiltinDeny(trim(command))
    /\ ~NamesDangerousFile(ArgumentTail(command))
    /\ MatchesConfiguredDeny(trim(command), config)

\* the builtin and the configured allow entries
AllowEntries(cfg) ==
    {BUILTIN_AUTO_COMMANDS[i] : i \in 1..Len(BUILTIN_AUTO_COMMANDS)}
    \cup {cfg.policy.auto_commands[i] : i \in 1..Len(cfg.policy.auto_commands)}

\* the text is the entry, or the entry and then a space and more
AtEntryBoundary(text, entry) ==
    \/ text = entry
    \/ /\ Len(text) > Len(entry)
       /\ SubSeq(text, 1, Len(entry)) = entry
       /\ Char(text, Len(entry) + 1) = " "

\* the text begins with the entry and goes on with something else than a space
SharesPrefixOnly(text, entry) ==
    /\ Len(text) > Len(entry)
    /\ SubSeq(text, 1, Len(entry)) = entry
    /\ Char(text, Len(entry) + 1) # " "

\* C25: a command is Auto only if, trimmed, it is a builtin or configured
\* allow entry or begins with one followed by a space; a command that only
\* shares a prefix with allow entries, without that boundary, is not Auto
C25_AutoOnlyAtEntryBoundary ==
    (Classified /\ policy_result = "Auto") =>
        \E entry \in AllowEntries(config) : AtEntryBoundary(trim(command), entry)

\* a command that goes on after an allow entry without a space, and that no
\* earlier tier decides, is not auto-allowed
C25_Witness ==
    /\ Classified
    /\ policy_result = "Ask"
    /\ ~HasMetaChar(command)
    /\ \E entry \in AllowEntries(config) : SharesPrefixOnly(trim(command), entry)
    /\ \A entry \in AllowEntries(config) : ~AtEntryBoundary(trim(command), entry)

(***************************************************************************)
(* Properties of the orchestrator (checked under Spec).                    *)
(***************************************************************************)

\* the entries of a log
Entries(log) == {log[i] : i \in 1..Len(log)}

\* the entry is for a bash tool call of the model and carries its command
\* and what check_policy returns for that command
ForBashCall(entry) ==
    /\ entry.key.call.name = "bash"
    /\ entry.command = extract_command(entry.key.call.input)
    /\ entry.policy = check_policy(entry.command, config)

AnsweredWith(log, key, answers) ==
    \E a \in Entries(log) : a.key = key /\ a.answer \in answers

\* C1: run_bash is invoked for the command of a bash tool call only if
\* check_policy returned Auto, or returned Ask and the approval callback
\* returned Ok(true); never when the classification is Deny, nor when the
\* callback returned Ok(false) (rejected or cancelled) or an error.
\* (A step that invokes run_bash is a step that adds an entry to executed.)
C1_RunOnlyAutoOrApproved ==
    [][ executed' # executed =>
          LET e == executed'[Len(executed')]
          IN  /\ executed' = Append(executed, e)
              /\ ForBashCall(e)
              /\ \/ e.policy = "Auto"
                 \/ e.policy = "Ask" /\ AnsweredWith(approvals', e.key, {"Ok(true)"})
              /\ ~AnsweredWith(approvals', e.key, {"Ok(false)", "Err"}) ]_vars

\* two rounds of tool calls are over: a command classified Ask ran after
\* Ok(true), auto-allowed commands ran, a command whose approval ended in an
\* error did not run, and the denied commands did not run
C1_Witness ==
    /\ pc = "provider"
    /\ provider_calls = 3
    /\ \E e \in Entries(executed) :
          e.policy = "Ask" /\ AnsweredWith(approvals, e.key, {"Ok(true)"})
    /\ \E e \in Entries(executed) : e.policy = "Auto"
    /\ \E a \in Entries(approvals) :
          a.answer = "Err" /\ \A e \in Entries(executed) : e.key # a.key
    /\ \E i \in 1..Len(messages) : messages[i].content = "Command denied by policy."

\* C2: the approval callback is invoked only for commands classified Ask, at
\* most once per tool call; never for a command classified Auto or Deny, nor
\* for a tool call with an unknown tool name or an empty command.
\* (A step that invokes the callback is a step that adds an entry to
\* approvals; the step that records its answer adds none.)
C2_ApprovalOnlyForAskOnce ==
    [][ Len(approvals') # Len(approvals) =>
          LET a == approvals'[Len(approvals')]
          IN  /\ approvals' = Append(approvals, a)
              /\ ForBashCall(a)
              /\ a.command # ""
              /\ a.policy = "Ask"
              /\ \A i \in 1..Len(approvals) : approvals[i].key # a.key ]_vars

\* two rounds of tool calls are over, with an unknown tool, a missing
\* command, denied commands and an auto-allowed command that ran among them:
\* the callback was called once, for the command classified Ask
C2_Witness ==
    /\ pc = "provider"
    /\ provider_calls = 3
    /\ Len(approvals) = 1
    /\ approvals[1].policy = "Ask"
    /\ approvals[1].answer = "Ok(false)"
    /\ \E e \in Entries(executed) : e.policy = "Auto"
    /\ \E i \in 1..Len(messages) : messages[i].content = "Unknown tool: python"
    /\ \E i \in 1..Len(messages) : messages[i].content = "No command provided."
    /\ \E i \in 1..Len(messages) : messages[i].content = "Command denied by policy."

\* C10: when a provider call fails during run_agent_turn the turn ends at
\* once with an error, and the history is what it was just before the failing
\* call, which is what that call sent: no assistant message and no tool
\* message is appended; run_agent_turn called again on that history sends it
\* again.
C10_FailedCallLeavesHistory ==
    [][ /\ (pc = "provider" /\ pc' = "idle" /\ turn_result'.kind = "Err")
            => /\ messages' = messages
               /\ messages' = request
               /\ session_tokens' = session_tokens
        /\ (pc = "idle" /\ turn_result.kind = "Err" /\ messages = request
                /\ pc' = "provider")
            => request' = request ]_vars

\* the call after a round of tool calls failed and run_agent_turn was called
\* again: the request in flight is the history that ends with the tool
\* messages of that round
C10_Witness ==
    /\ pc = "provider"
    /\ provider_calls = 1
    /\ turn_result.kind = "Err"
    /\ total_calls = 3
    /\ request = messages
    /\ messages[Len(messages)].role = "tool"

\* the message appended last
LastMessage(history) == history[Len(history)]

\* the step on which the reply to the first provider call of a turn is
\* pushed, the reply having no tool calls
FirstReplyWithoutToolCalls ==
    /\ pc = "provider"
    /\ provider_calls = 1
    /\ Len(messages') = Len(messages) + 1
    /\ LastMessage(messages').tool_calls = << >>

\* C12: a turn whose first reply has no tool calls makes exactly one
\* provider call, appends exactly one message to the history, an Assistant
\* message, and returns Ok.
C12_NoToolCallsOneCallOneMessage ==
    [][ FirstReplyWithoutToolCalls
            => /\ pc' = "idle"
               /\ turn_result' = Ok
               /\ provider_calls' = 1
               /\ total_calls' = total_calls
               /\ Len(messages') = Len(request) + 1
               /\ SubSeq(messages', 1, Len(request)) = request
               /\ LastMessage(messages').role = "assistant" ]_vars

C12_Witness ==
    /\ pc = "idle"
    /\ turn_result = Ok
    /\ provider_calls = 1
    /\ messages = Append(request, LastMessage(messages))
    /\ LastMessage(messages).role = "assistant"
    /\ LastMessage(messages).tool_calls = << >>

\* the step on which the second provider call of a turn is made, the first
\* reply having had one tool call
SecondCallAfterOneToolCall ==
    /\ pc \in {"tools", "prompt_approval", "run_bash"}
    /\ provider_calls = 1
    /\ Len(tool_calls) = 1
    /\ pc' = "provider"

\* the step on which the reply to that second call is pushed, the reply
\* having no tool calls
SecondReplyWithoutToolCalls ==
    /\ pc = "provider"
    /\ provider_calls = 2
    /\ Len(request) >= 2
    /\ Len(request[Len(request) - 1].tool_calls) = 1
    /\ Len(messages') = Len(messages) + 1
    /\ LastMessage(messages').tool_calls = << >>

\* C13: a turn whose first reply has one tool call and whose second reply
\* has none makes exactly two provider calls and appends exactly three
\* messages, Assistant, Tool, Assistant in this order; the second call is
\* made only after the Tool message was appended (request is the history of
\* the turn's start until the second call is made, then that history with
\* the Assistant and the Tool message).
C13_OneToolCallTwoCallsThreeMessages ==
    [][ /\ SecondCallAfterOneToolCall
            => /\ provider_calls' = 2
               /\ Len(messages') = Len(request) + 2
               /\ SubSeq(messages', 1, Len(request)) = request
               /\ messages'[Len(request) + 1].role = "assistant"
               /\ messages'[Len(request) + 1].tool_calls = tool_calls
               /\ messages'[Len(request) + 2].role = "tool"
               /\ request' = messages'
        /\ SecondReplyWithoutToolCalls
            => /\ pc' = "idle"
               /\ turn_result' = Ok
               /\ provider_calls' = 2
               /\ total_calls' = total_calls
               /\ messages' = Append(request, LastMessage(messages'))
               /\ LastMessage(messages').role = "assistant"
               /\ request[Len(request) - 1].role = "assistant"
               /\ request[Len(request)].role = "tool" ]_vars

C13_Witness ==
    /\ pc = "idle"
    /\ turn_result = Ok
    /\ provider_calls = 2
    /\ Len(messages) >= 4
    /\ messages[Len(messages) - 2].role = "assistant"
    /\ Len(messages[Len(messages) - 2].tool_calls) = 1
    /\ messages[Len(messages) - 1].role = "tool"
    /\ LastMessage(messages).role = "assistant"
    /\ LastMessage(messages).tool_calls = << >>

\* pc inside handle_tool_calls
HandlingToolCalls(at) == at \in {"tools", "prompt_approval", "run_bash"}

\* the Tool messages of the calls, one per call in the order of the calls
AnswersInOrder(answers, calls) ==
    /\ Len(answers) = Len(calls)
    /\ \A i \in 1..Len(calls) :
          /\ answers[i].role = "tool"
          /\ answers[i].tool_call_id = Some(calls[i].id)

\* C14: the tool calls of a reply are handled one at a time in the order of
\* the reply (the call in hand is the one after the calls already answered,
\* and a step answers at most that call); when the next provider call is
\* made the history has gained exactly one Tool message per call, in the
\* order of the calls, each with the id of its call, and the call sends
\* that history.
C14_ToolCallsAnsweredInOrder ==
    [][ /\ HandlingToolCalls(pc')
            => /\ call_idx' = Len(results') + 1
               /\ call_idx' <= Len(tool_calls')
               /\ AnswersInOrder(results', SubSeq(tool_calls', 1, call_idx' - 1))
               /\ LastMessage(messages').tool_calls = tool_calls'
        /\ (HandlingToolCalls(pc) /\ HandlingToolCalls(pc'))
            => /\ Len(results') \in {Len(results), Len(results) + 1}
               /\ SubSeq(results', 1, Len(results)) = results
               /\ messages' = messages
               /\ total_calls' = total_calls
        /\ (approvals' # approvals /\ Len(approvals') > Len(approvals))
            => LastMessage(approvals').key.call = tool_calls[call_idx]
        /\ executed' # executed
            => LastMessage(executed').key.call = tool_calls[call_idx]
        /\ (HandlingToolCalls(pc) /\ pc' = "provider")
            => /\ Len(messages') = Len(messages) + Len(tool_calls)
               /\ SubSeq(messages', 1, Len(messages)) = messages
               /\ AnswersInOrder(
                     SubSeq(messages', Len(messages) + 1, Len(messages')), tool_calls)
               /\ request' = messages'
               /\ total_calls' = total_calls + 1 ]_vars

C14_Witness ==
    /\ pc = "provider"
    /\ provider_calls = 2
    /\ Len(tool_calls) = 3
    /\ request = messages
    /\ Len(messages) >= 5
    /\ messages[Len(messages) - 3].tool_calls = tool_calls
    /\ AnswersInOrder(SubSeq(messages, Len(messages) - 2, Len(messages)), tool_calls)

\* the step that handles a call of a tool other than "bash"
HandlesUnknownTool == pc = "tools" /\ tool_calls[call_idx].name # "bash"

\* C15: a tool call whose name is not "bash" does not end the turn and
\* reaches neither the classifier nor the approval callback nor run_bash: its
\* step answers it with the Tool message "Unknown tool: <name>" carrying the
\* id of the call, and goes on to the next tool call or, after the last, to
\* the next provider call.
C15_UnknownToolAnsweredAndSkipped ==
    [][ HandlesUnknownTool
            => /\ results' = Append(results,
                     ToolMessage("Unknown tool: " \o tool_calls[call_idx].name,
                                 tool_calls[call_idx].id))
               /\ policy_result' = "none"
               /\ approvals' = approvals
               /\ executed' = executed
               /\ turn_result' = turn_result
               /\ IF call_idx < Len(tool_calls)
                  THEN pc' = "tools" /\ call_idx' = call_idx + 1
                                    /\ messages' = messages
                  ELSE pc' = "provider" /\ messages' = messages \o results'
                                       /\ request' = messages' ]_vars

C15_Witness ==
    /\ pc = "provider"
    /\ provider_calls = 3
    /\ request = messages
    /\ LastMessage(messages) = ToolMessage("Unknown tool: read_file", "call_2")
    /\ \E i \in 1..Len(messages) :
          messages[i] = ToolMessage("Unknown tool: python", "call_1")

\* a value that is an object with a "command" member that is a string
\* which is not empty
IsCommandObject(value) ==
    /\ value.t = "object"
    /\ JGet(value, "command") # None
    /\ JGet(value, "command")[1].t = "string"
    /\ JGet(value, "command")[1].s # ""

\* the arguments of a call carry a command: they are such an object, or
\* the text of one (arguments that reached the agent unparsed)
CarriesCommand(input) ==
    LET Parsed(r) == r.ok /\ IsCommandObject(r.v)
    IN  \/ IsCommandObject(input)
        \/ input.t = "string" /\ Parsed(JsonFromStr(input.s))

\* the step that handles a bash call whose arguments carry no command
HandlesBashWithoutCommand ==
    /\ pc = "tools"
    /\ tool_calls[call_idx].name = "bash"
    /\ ~CarriesCommand(tool_calls[call_idx].input)

\* C16: a bash tool call whose command argument is empty or unparseable
\* (missing, not a string, or arguments that could not be parsed into an
\* object with a command field) is neither classified nor executed: its step
\* answers it with the Tool message "No command provided." carrying the id
\* of the call, and the turn goes on.
C16_NoCommandAnsweredAndSkipped ==
    [][ HandlesBashWithoutCommand
            => /\ results' = Append(results,
                     ToolMessage("No command provided.", tool_calls[call_idx].id))
               /\ policy_result' = "none"
               /\ approvals' = approvals
               /\ executed' = executed
               /\ turn_result' = turn_result
               /\ pc' \in {"tools", "provider"} ]_vars

\* C18: each session token counter (prompt, completion, total) never
\* decreases over run_agent_turn, add_user_message and clear, whatever
\* usage the replies report.
C18_TokenCountersNeverDecrease ==
    [][ /\ session_tokens'.prompt >= session_tokens.prompt
        /\ session_tokens'.completion >= session_tokens.completion
        /\ session_tokens'.total >= session_tokens.total ]_vars

\* a step of clear: an operation that leaves the agent idle and does not
\* make the history longer (add_user_message makes it longer, run_agent_turn
\* leaves pc = "idle")
ClearStep ==
    /\ pc = "idle"
    /\ pc' = "idle"
    /\ ops' = ops + 1
    /\ Len(messages') <= Len(messages)

\* C19: clear truncates the history to exactly its first element, the
\* System message, and leaves the session token counters, the tool registry
\* and the configuration as they were.
C19_ClearKeepsSystemMessageOnly ==
    [][ ClearStep
            => /\ messages' = << messages[1] >>
               /\ messages'[1].role = "system"
               /\ session_tokens' = session_tokens
               /\ tools' = tools
               /\ config' = config ]_vars

\* after clear: a history of one message in a session that has counted
\* tokens
C19_Witness ==
    /\ pc = "idle"
    /\ Len(messages) = 1
    /\ session_tokens.total > 0
    /\ tools = << bash_tool >>

\* a call of the kind is the only one in flight
OnlyInFlight(flight, kind) == flight = << [kind |-> kind] >>

\* C23: at no point are two provider round-trips, two tool executions, or
\* a provider round-trip and a tool execution in flight together: at most
\* one call is in flight, a tool execution starts only when nothing is in
\* flight and every earlier call of the reply has its result, and a
\* provider call starts only when nothing else is in flight and, inside a
\* turn, every tool call of the previous reply has its result.
C23_NothingInFlightTogether ==
    /\ [](/\ Len(in_flight) <= 1
          /\ pc = "provider" <=> OnlyInFlight(in_flight, "provider")
          /\ pc = "run_bash" <=> OnlyInFlight(in_flight, "run_bash"))
    /\ [][ /\ executed' # executed =>
                /\ in_flight = << >>
                /\ Len(results) = call_idx - 1
                /\ OnlyInFlight(in_flight', "run_bash")
           /\ total_calls' # total_calls =>
                /\ OnlyInFlight(in_flight', "provider")
                /\ pc # "idle" => /\ Len(results') = Len(tool_calls)
                                  /\ Len(in_flight) = IF pc = "run_bash" THEN 1 ELSE 0
                /\ pc = "idle" => in_flight = << >> ]_vars

\* the third command of a reply runs after the first one has run and returned
C23_Witness ==
    /\ pc = "run_bash"
    /\ call_idx = 3
    /\ Len(results) = 2
    /\ Len(executed) >= 2
    /\ executed[Len(executed) - 1].key.round = provider_calls
    /\ OnlyInFlight(in_flight, "run_bash")

\* run_agent_turn returns
TurnReturns == pc # "idle" /\ pc' = "idle"

PayloadMember(content, key) ==
    LET Text(v) == IF v.t = "string" THEN v.s ELSE v.n
        Member(parsed) == Text(JGet(parsed.v, key)[1])
    IN  Member(JsonFromStr(content))

\* run_bash returns to handle_bash_tool
RunBashReturned == pc = "run_bash" /\ child' # None

Replies(schema_type) ==
    { r \in HttpResponses(schema_type) : r.status = 200 }
    \cup (IF schema_type = "OpenAI" THEN OpenAIReplies ELSE { })

InitReplies ==
    /\ config = default_config
    /\ command = ""
    /\ policy_result = "none"
    /\ pc = "idle"
    /\ provider \in { p \in Providers : UrlParses(p.base_url) }
    /\ AgentNew

NextReplies ==
    \/ \E content \in UserContents : AddUserMessage(content)
    \/ RunAgentTurn
    \/ SendRequest
    \/ \E response \in Replies(provider.schema_type) : HttpResponds(response)
    \/ HandleToolCall
    \/ \E answer \in ApprovalAnswers : PromptApprovalReturns(answer)
    \/ \E outcome \in ChildOutcomes : RunBashReturns(outcome)

SpecReplies == InitReplies /\ [][NextReplies]_vars

(***************************************************************************)
(* The codec of an adapter on its own: a history that ends with an         *)
(* assistant message of one tool call and its result is encoded into a     *)
(* request, and the endpoint answers with the assistant message of the     *)
(* request as the adapter wrote it.                                        *)
(***************************************************************************)

\* the inputs the decoding of the adapter gives its tool calls: any value
\* for the OpenAI adapter (parse_tool_input), any value but null for the
\* Anthropic adapter (a block whose "input" is null is no tool call)
CodecInputs(schema_type) ==
    { JObject(<< JMember("command", JString("ls")) >>),
      JObject(<< JMember("command", JString("echo \\\"")) >>),
      JObject(<< JMember("b", JArray(<< JNumber("-2"), JBool(TRUE), JNull >>)),
                 JMember("a", JObject(<< JMember("c", JString("")) >>)) >>),
      JObject(<< >>),
      JArray(<< JString("ls") >>),
      JNumber("7"),
      JString("ls") }
    \cup (IF schema_type = "OpenAI" THEN { JNull } ELSE { })

\* the contents of the System messages, each as load_system_prompt returns
\* one: trimmed and not empty
CodecSystems ==
    { << >>,
      << SystemPrompt >>,
      << SystemPrompt, "Answer in English." >> }

\* the text an assistant message carries beside its tool call
CodecContents == { "", "I list the files." }

\* the history: the System messages, the second of two before or after the
\* user message, then the assistant message of the call and its result
CodecHistory(systems, split, content, input) ==
    LET System(i) == Message("system", systems[i], None, None, << >>)
        User == Message("user", "list the files", None, None, << >>)
        Turn == << Message("assistant", content, None, None,
                           << ToolCall("call_1", "bash", input) >>),
                   Message("tool", "{}", None, Some("call_1"), << >>) >>
    IN  IF split /\ Len(systems) = 2
        THEN << System(1), User, System(2) >> \o Turn
        ELSE [i \in 1..Len(systems) |-> System(i)] \o << User >> \o Turn

CodecProviders == { p \in Providers : UrlParses(p.base_url) }

InitCodec ==
    /\ config = default_config
    /\ command = ""
    /\ policy_result = "none"
    /\ pc = "idle"
    /\ provider \in CodecProviders
    /\ tools = << bash_tool >>
    /\ \E systems \in CodecSystems, split \in BOOLEAN, content \in CodecContents,
          input \in CodecInputs(provider.schema_type) :
            messages = CodecHistory(systems, split, content, input)
    /\ session_tokens = [prompt |-> 0, completion |-> 0, total |-> 0]
    /\ request = << >>
    /\ tool_calls = << >>
    /\ call_idx = 0
    /\ results = << >>
    /\ turn_result = NoResult
    /\ provider_calls = 0
    /\ total_calls = 0
    /\ ops = 0
    /\ approvals = << >>
    /\ executed = << >>
    /\ http_pending = FALSE
    /\ http_requests = 0
    /\ http_response = None
    /\ http_request = None
    /\ child = None
    /\ endpoint = None
    /\ NoThreads
    /\ in_flight = << >>

\* struct OpenAIMessage of a request as serde writes it
OpenAIMessageValue(message) ==
    LET Call(call) ==
            JObject(<< JMember("id", JString(call.id)),
                       JMember("type", JString(call.type)),
                       JMember("function",
                           JObject(<< JMember("name", JString(call.function.name)),
                                      JMember("arguments",
                                              JString(call.function.arguments)) >>)) >>)
        Calls(calls) == [i \in 1..Len(calls) |-> Call(calls[i])]
    IN  JObject(<< JMember("role", JString(message.role)),
                   JMember("content", JString(message.content)) >>
                \o (IF message.tool_call_id = None THEN << >>
                    ELSE << JMember("tool_call_id", JString(message.tool_call_id[1])) >>)
                \o (IF message.tool_calls = << >> THEN << >>
                    ELSE << JMember("tool_calls", JArray(Calls(message.tool_calls))) >>))

\* the response that carries the assistant message of the request: as the
\* message of the first choice, or as the content blocks
EchoResponse(schema_type, encoded) ==
    LET IsAssistant(m) == m.role = "assistant"
        Body(m) ==
            IF schema_type = "OpenAI"
            THEN JObject(<< JMember("choices",
                    JArray(<< JObject(<< JMember("message", OpenAIMessageValue(m)) >>) >>)) >>)
            ELSE JObject(<< JMember("content", m.content) >>)
    IN  HttpResponse(200, JsonToString(Body(SelectSeq(encoded.messages, IsAssistant)[1])))

\* the endpoint answers the request with its assistant message
EchoResponds ==
    /\ http_pending
    /\ http_request # None
    /\ \E response \in { EchoResponse(provider.schema_type, http_request[1]) } :
            HttpResponds(response)

NextCodec ==
    \/ RunAgentTurn
    \/ SendRequest
    \/ EchoResponds

SpecCodec == InitCodec /\ [][NextCodec]_vars

(***************************************************************************)
(* The encoding of an adapter on its own: a history whose assistant        *)
(* message carries one or two tool calls, each answered by a Tool message, *)
(* is encoded into a request.                                              *)
(***************************************************************************)

\* the tool calls behind the first one of an assistant message
EncodeMoreCalls ==
    { << >>,
      << ToolCall("call_2", "bash", JObject(<< JMember("command", JString("pwd")) >>)) >>,
      << ToolCall("call_2", "read", JString("a.txt")) >> }

\* the history: the System message if any, the user message, the assistant
\* message of the calls, one Tool message per call in call order, and a
\* further user message if any
EncodeHistory(systems, content, calls, again) ==
    [i \in 1..Len(systems) |-> Message("system", systems[i], None, None, << >>)]
    \o << Message("user", "list the files", None, None, << >>),
          Message("assistant", content, None, None, calls) >>
    \o [i \in 1..Len(calls) |->
            Message("tool", "result of " \o calls[i].id, None, Some(calls[i].id), << >>)]
    \o (IF again THEN << Message("user", "and now?", None, None, << >>) >> ELSE << >>)

InitEncode ==
    /\ config = default_config
    /\ command = ""
    /\ policy_result = "none"
    /\ pc = "idle"
    /\ provider \in CodecProviders
    /\ tools = << bash_tool >>
    /\ \E systems \in { << >>, << SystemPrompt >> }, content \in CodecContents,
          input \in CodecInputs(provider.schema_type), more \in EncodeMoreCalls,
          again \in BOOLEAN :
            messages = EncodeHistory(systems, content,
                                     << ToolCall("call_1", "bash", input) >> \o more, again)
    /\ session_tokens = [prompt |-> 0, completion |-> 0, total |-> 0]
    /\ request = << >>
    /\ tool_calls = << >>
    /\ call_idx = 0
    /\ results = << >>
    /\ turn_result = NoResult
    /\ provider_calls = 0
    /\ total_calls = 0
    /\ ops = 0
    /\ approvals = << >>
    /\ executed = << >>
    /\ http_pending = FALSE
    /\ http_requests = 0
    /\ http_response = None
    /\ http_request = None
    /\ child = None
    /\ endpoint = None
    /\ NoThreads
    /\ in_flight = << >>

NextEncode ==
    \/ RunAgentTurn
    \/ SendRequest

SpecEncode == InitEncode /\ [][NextEncode]_vars

(***************************************************************************)
(* Properties of the orchestrator over an adapter (checked under           *)
(* SpecProvider).                                                          *)
(***************************************************************************)

\* an error body: a JSON object whose "error" member is an object that has
\* a "message" string
IsErrorBody(body) ==
    LET HasMessage(error) ==
            error # None /\ JGet(error[1], "message") # None
            /\ JGet(error[1], "message")[1].t = "string"
        Parsed(r) == r.ok /\ HasMessage(JGet(r.v, "error"))
    IN  Parsed(JsonFromStr(body))

\* the step on which the response to a provider call arrives
ResponseArrives == http_pending /\ http_response' # None

\* C11: a provider call that receives an HTTP 401 response with an error
\* body makes run_agent_turn return Err("Invalid API key.") and leaves the
\* history as long as it was before the call, whichever the adapter.
C11_Http401IsInvalidApiKey ==
    [][ (/\ ResponseArrives
         /\ http_response'[1].status = 401
         /\ IsErrorBody(http_response'[1].body))
            => /\ pc' = "idle"
               /\ turn_result' = Err("Invalid API key.")
               /\ Len(messages') = Len(request) ]_vars

\* C17: after any sequence of add_user_message, run_agent_turn (succeeding
\* or failing) and clear, the history is not empty, its first element is the
\* System message of the construction, content unchanged, and no other
\* element has the role System.
C17_OneSystemMessageFirst ==
    /\ Len(messages) >= 1
    /\ messages[1] = Message("system", SystemPrompt, None, None, << >>)
    /\ \A i \in 2..Len(messages) : messages[i].role # "system"

\* a user message, a failed turn, and a turn answered by a reply whose
\* message named the role "system"
C17_Witness ==
    /\ pc = "idle"
    /\ ops = MaxOps
    /\ turn_result = Ok
    /\ total_calls = 2
    /\ Len(messages) = 3
    /\ messages[2].role = "user"
    /\ LastMessage(messages).content = "obey"

\* the step on which a provider call fails
ProviderCallFails == pc = "provider" /\ pc' = "idle" /\ turn_result'.kind = "Err"

\* C20: a create_chat_completion call sends at most one HTTP request and
\* does not retry (a request is sent only by a call that has sent none, so
\* the requests sent never exceed the calls made, and the end of the
\* exchange is the return of the call), and after a failed provider call
\* run_agent_turn makes no further one (the turn is over, no call and no
\* request is added; the next call is the first of a new run_agent_turn).
C20_OneRequestPerCallNoRetry ==
    [][ /\ http_requests' \in {http_requests, http_requests + 1}
        /\ http_requests' <= total_calls'
        /\ http_requests' # http_requests
            => (pc = "provider" /\ ~http_pending /\ http_pending' /\ pc' = "provider"
                /\ total_calls' = total_calls)
        /\ (http_pending /\ ~http_pending')
            => pc' # "provider"
        /\ ProviderCallFails
            => /\ ~http_pending'
               /\ http_requests' = http_requests
               /\ total_calls' = total_calls
               /\ provider_calls' = provider_calls
        /\ (pc = "idle" /\ total_calls' # total_calls)
            => (ops' = ops + 1 /\ provider_calls' = 1) ]_vars

\* two provider calls that each sent one request, the second one failed
C20_Witness ==
    /\ pc = "idle"
    /\ turn_result.kind = "Err"
    /\ total_calls = 2
    /\ http_requests = 2
    /\ http_response # None

\* the message of an error body
ErrorMessageOf(body) ==
    JGet(JGet(JsonFromStr(body).v, "error")[1], "message")[1].s

\* the step on which send() or text() fails
TransportFailed == http_pending /\ ~http_pending' /\ http_response' = None

\* C26: for both adapters, a response with a status outside 2xx whose body
\* carries an error message fails with that message followed by the status;
\* a 2xx response whose body carries an error message fails with that
\* message; a transport failure fails with a "Request failed" or "Failed to
\* read response" error and a body that is not JSON with an "Invalid
\* response" error (run_agent_turn passes each through map_provider_error)
C26_ErrorStringsOfTheAdapters ==
    [][ /\ ResponseArrives =>
            LET status == http_response'[1].status
                body == http_response'[1].body
            IN  /\ (status \notin 200..299 /\ IsErrorBody(body)) =>
                        /\ ProviderCallFails
                        /\ turn_result'.err =
                             map_provider_error(ErrorMessageOf(body) \o " (status "
                                                \o ToString(status) \o ")")
                /\ (status \in 200..299 /\ IsErrorBody(body)) =>
                        /\ ProviderCallFails
                        /\ turn_result'.err = map_provider_error(ErrorMessageOf(body))
                /\ ~JsonFromStr(body).ok =>
                        /\ ProviderCallFails
                        /\ starts_with(turn_result'.err, "Invalid response: ")
        /\ TransportFailed =>
                /\ ProviderCallFails
                /\ \/ starts_with(turn_result'.err, "Request failed: ")
                   \/ starts_with(turn_result'.err, "Failed to read response: ") ]_vars

\* the function calls of the first choice of a decoded OpenAI body
FunctionCallsOf(value) ==
    LET IsFunction(call) == JGet(call, "type")[1].s = "function"
        calls(m) ==
            IF JGet(m, "tool_calls") = None THEN << >>
            ELSE SelectSeq(JGet(m, "tool_calls")[1].items, IsFunction)
        first(choices) ==
            IF choices = << >> THEN << >> ELSE calls(JGet(choices[1], "message")[1])
    IN  first(JGet(value, "choices")[1].items)

\* the arguments string of a function call of the body
ArgumentsOf(call) == JGet(JGet(call, "function")[1], "arguments")[1].s

\* the step on which the OpenAI adapter receives a response with a success
\* status
OpenAIResponseArrives ==
    /\ ResponseArrives
    /\ provider.schema_type = "OpenAI"
    /\ http_response'[1].status \in 200..299

\* a body that is JSON and has choices and no error
IsOpenAIReply(parsed) ==
    /\ parsed.ok
    /\ JGet(parsed.v, "choices") # None
    /\ JGet(parsed.v, "error") = None

\* the tool calls of the message the step pushed
CallsPushed == LastMessage(messages').tool_calls

\* the original wording of C28: the arguments string of each function call
\* becomes structured JSON when it is valid JSON and is otherwise kept as a
\* plain string, and the response never fails
C28_ArgumentsStructuredOrPlainString ==
    [][ OpenAIResponseArrives =>
            LET Expected(raw, parsed) == IF parsed.ok THEN parsed.v ELSE JString(raw)
                Input(raw) == Expected(raw, JsonFromStr(raw))
                Inputs(calls, pushed) ==
                    /\ ~ProviderCallFails
                    /\ Len(pushed) = Len(calls)
                    /\ \A i \in 1..Len(calls) :
                            pushed[i].input = Input(ArgumentsOf(calls[i]))
                Reply(parsed) ==
                    IsOpenAIReply(parsed) => Inputs(FunctionCallsOf(parsed.v), CallsPushed)
            IN  Reply(JsonFromStr(http_response'[1].body)) ]_vars

\* C28 as the code has it: when the OpenAI adapter parses a response, the
\* arguments string of each function call becomes structured JSON when it is
\* valid JSON, the empty object when it is the empty string, and is otherwise
\* kept as a plain string; an arguments string that is not valid JSON never
\* makes the whole response fail
C28_ArgumentsStructuredEmptyOrPlainString ==
    [][ OpenAIResponseArrives =>
            LET Expected(raw, parsed) ==
                    IF raw = "" THEN JObject(<< >>)
                    ELSE IF parsed.ok THEN parsed.v ELSE JString(raw)
                Input(raw) == Expected(raw, JsonFromStr(raw))
                Inputs(calls, pushed) ==
                    /\ ~ProviderCallFails
                    /\ Len(pushed) = Len(calls)
                    /\ \A i \in 1..Len(calls) :
                            pushed[i].input = Input(ArgumentsOf(calls[i]))
                Reply(parsed) ==
                    IsOpenAIReply(parsed) => Inputs(FunctionCallsOf(parsed.v), CallsPushed)
            IN  Reply(JsonFromStr(http_response'[1].body)) ]_vars

\* the OpenAI adapter has returned a call of which the arguments were not
\* JSON, kept as the string they were
C28_Witness ==
    LET NotJson(calls) == calls # << >> /\ ~JsonFromStr(ArgumentsOf(calls[1])).ok
    IN  /\ provider.schema_type = "OpenAI"
        /\ pc = "tools"
        /\ http_response # None
        /\ tool_calls[1].input = JString("ls")
        /\ NotJson(FunctionCallsOf(JsonFromStr(http_response[1].body).v))

\* C29: for every successful provider reply that carries usage, the usage
\* either adapter returns has total_tokens = prompt_tokens +
\* completion_tokens, whatever total the provider reported (the usage
\* returned is what the step adds to the counters of the session)
C29_TotalIsPromptPlusCompletion ==
    [][ (/\ ResponseArrives
         /\ ~ProviderCallFails
         /\ JGet(JsonFromStr(http_response'[1].body).v, "usage") # None)
            => session_tokens'.total - session_tokens.total =
                 (session_tokens'.prompt - session_tokens.prompt)
                 + (session_tokens'.completion - session_tokens.completion) ]_vars

\* the short categories of map_provider_error
InvalidApiKey == "Invalid API key."
RateLimited == "Rate limit exceeded. Wait and retry."
NetworkError == "Network error. Check your connection."

\* what create_chat_completion returned on the step: the error of the
\* transport when no response arrived, else what the adapter makes of the
\* response
AdapterError(response) ==
    HandleResponse(provider.schema_type, response.status, response.body).err

\* C27: run_agent_turn reports the invalid-API-key category only for an
\* unauthorized call (status 401), the rate-limit category only for a
\* rate-limited call (status 429), the network category only when no
\* response arrived, and in every other case the provider's error string
\* verbatim
C27_CategoryOnlyForItsError ==
    [][ ProviderCallFails =>
            /\ turn_result'.err = InvalidApiKey =>
                    http_response' # None /\ http_response'[1].status = 401
            /\ turn_result'.err = RateLimited =>
                    http_response' # None /\ http_response'[1].status = 429
            /\ turn_result'.err = NetworkError => http_response' = None
            /\ (/\ http_response' # None
                /\ http_response'[1].status \notin {401, 429})
                    => turn_result'.err = AdapterError(http_response'[1]) ]_vars

(***************************************************************************)
(* Properties of the codec of an adapter (checked under SpecCodec).        *)
(***************************************************************************)

\* two values are structurally equal: the members of an object are those of
\* its map, in any order
RECURSIVE JEqual(_, _)
JEqual(a, b) ==
    LET SameItems(x, y) ==
            /\ Len(x) = Len(y)
            /\ \A i \in 1..Len(x) : JEqual(x[i], y[i])
        SameEntries(x, y) ==
            /\ Len(x) = Len(y)
            /\ \A i \in 1..Len(x) :
                    \E j \in 1..Len(y) : /\ y[j].key = x[i].key
                                         /\ JEqual(x[i].value, y[j].value)
    IN  IF a.t # b.t THEN FALSE
        ELSE IF a.t = "array" THEN SameItems(a.items, b.items)
        ELSE IF a.t = "object" THEN SameEntries(MapEntries(a), MapEntries(b))
        ELSE a = b

\* the tool call of the history that was encoded
CallSent ==
    LET HasCall(m) == m.tool_calls # << >>
    IN  SelectSeq(request, HasCall)[1].tool_calls[1]

\* C21: an Assistant message with one ToolCall, encoded into a request by
\* the OpenAI adapter and by the Anthropic adapter and decoded back from a
\* response that carries the encoded call, yields with either adapter one
\* ToolCall of the same id, the same name and a structurally equal input
C21_ToolCallRoundTrip ==
    http_response # None =>
        LET Same(sent, got) ==
                /\ Len(got) = 1
                /\ got[1].id = sent.id
                /\ got[1].name = sent.name
                /\ JEqual(got[1].input, sent.input)
        IN  /\ pc = "tools"
            /\ turn_result = NoResult
            /\ Same(CallSent, LastMessage(messages).tool_calls)

\* the OpenAI adapter has decoded back a call whose input is an object of
\* an array and an object, out of the string it had written it as
C21_Witness ==
    /\ provider.schema_type = "OpenAI"
    /\ http_response # None
    /\ pc = "tools"
    /\ JGet(CallSent.input, "b") # None
    /\ JGet(tool_calls[1].input, "b")[1].t = "array"
    /\ http_request[1].messages[Len(request) - 1].tool_calls[1].function.arguments
          = JsonToString(CallSent.input)

\* C30: in every Anthropic request no message of the messages array has the
\* System role, the contents of all System messages are joined by a blank
\* line into one system block at the top, and one more system block that
\* summarizes the tool registry always follows it, so the list of system
\* blocks is never empty
C30_SystemMessagesBecomeSystemBlocks ==
    (provider.schema_type = "Anthropic" /\ http_request # None) =>
        LET IsSystem(m) == m.role = "system"
            NotSystem(m) == m.role # "system"
            Text(block) == JGet(block, "text")[1].s
            Blocks(system, contents) ==
                /\ system # << >>
                /\ Len(system) = (IF contents = << >> THEN 1 ELSE 2)
                /\ contents # << >> => Text(system[1]) = join(contents, "\n\n")
                /\ \A i \in 1..Len(system) : JGet(system[i], "type")[1].s = "text"
                /\ Text(system[Len(system)]) =
                      (IF contents = << >> THEN "" ELSE "\n\n")
                      \o "## Available Tools\n\n" \o ToolsSummary(tools)
            Sent(systems, others) ==
                /\ Len(http_request[1].messages) = Len(others)
                /\ \A i \in 1..Len(others) :
                        /\ http_request[1].messages[i].role # "system"
                        /\ http_request[1].messages[i].role =
                              (IF others[i].role = "tool" THEN "user" ELSE others[i].role)
                /\ Blocks(http_request[1].system,
                          [i \in 1..Len(systems) |-> systems[i].content])
        IN  Sent(SelectSeq(request, IsSystem), SelectSeq(request, NotSystem))

\* the Anthropic adapter has encoded a history of two System messages, the
\* second one after the user message
C30_Witness ==
    /\ provider.schema_type = "Anthropic"
    /\ http_request # None
    /\ Len(request) = 5
    /\ request[3].role = "system"
    /\ Len(http_request[1].system) = 2
    /\ Len(http_request[1].messages) = 3

(***************************************************************************)
(* Properties of the encoding of an adapter (checked under SpecEncode).    *)
(***************************************************************************)

\* C31: in every Anthropic request each Tool message is one user message
\* whose content is a single tool_result block with the tool_call_id of the
\* Tool message as its tool_use_id, each Assistant message with tool calls
\* is one assistant message of an optional text block and then one tool_use
\* block per call, in call order, with the id, the name and the input of
\* the call unchanged, and the messages keep their order
C31_ToolMessagesAndToolCallsAsBlocks ==
    (provider.schema_type = "Anthropic" /\ http_request # None) =>
        LET NotSystem(m) == m.role # "system"
            Str(block, key) == JGet(block, key)[1].s
            ToolResult(message, out) ==
                /\ out.role = "user"
                /\ out.content.t = "array"
                /\ Len(out.content.items) = 1
                /\ Str(out.content.items[1], "type") = "tool_result"
                /\ Str(out.content.items[1], "tool_use_id") = message.tool_call_id[1]
                /\ Str(out.content.items[1], "content") = message.content
            ToolUse(call, block) ==
                /\ Str(block, "type") = "tool_use"
                /\ Str(block, "id") = call.id
                /\ Str(block, "name") = call.name
                /\ JGet(block, "input") = Some(call.input)
            Blocks(message, blocks, texts) ==
                /\ Len(blocks) = texts + Len(message.tool_calls)
                /\ texts = 1 => /\ Str(blocks[1], "type") = "text"
                                /\ Str(blocks[1], "text") = message.content
                /\ \A i \in 1..Len(message.tool_calls) :
                        ToolUse(message.tool_calls[i], blocks[texts + i])
            Calls(message, out) ==
                /\ out.role = "assistant"
                /\ out.content.t = "array"
                /\ Blocks(message, out.content.items,
                          IF message.content = "" THEN 0 ELSE 1)
            Sent(others, out) ==
                /\ Len(out) = Len(others)
                /\ \A i \in 1..Len(others) :
                        /\ others[i].role = "tool" => ToolResult(others[i], out[i])
                        /\ (others[i].role = "assistant" /\ others[i].tool_calls # << >>)
                                => Calls(others[i], out[i])
                        /\ others[i].role = "user" => out[i].role = "user"
        IN  Sent(SelectSeq(request, NotSystem), http_request[1].messages)

\* the Anthropic adapter has encoded an assistant message of a text and two
\* tool calls, followed by its two Tool messages and a user message
C31_Witness ==
    /\ provider.schema_type = "Anthropic"
    /\ http_request # None
    /\ Len(request) = 6
    /\ Len(request[3].tool_calls) = 2
    /\ request[3].content # ""
    /\ Len(http_request[1].messages[2].content.items) = 3
    /\ http_request[1].messages[4].role = "user"

(***************************************************************************)
(* The request URL of the adapters: base URLs drawn from the defaults of   *)
(* config.rs and their variants, each adapter sending one request.         *)
(***************************************************************************)

\* default_base_url of config.rs and a local server, without what follows
BaseUrlRoots ==
    { "https://api.openai.com", "https://api.groq.com/openai", "https://api.deepseek.com",
      "https://api.anthropic.com", "https://api.minimax.io/anthropic",
      "http://localhost:8080" }

\* how a configured base_url ends
BaseUrlEnds == { "", "/", "/v1", "/v1/" }

UrlProviders ==
    { create_provider(schema_type, root \o end) :
        schema_type \in {"OpenAI", "Anthropic"}, root \in BaseUrlRoots, end \in BaseUrlEnds }

InitUrl ==
    /\ config = default_config
    /\ command = ""
    /\ policy_result = "none"
    /\ pc = "idle"
    /\ provider \in UrlProviders
    /\ AgentNew

NextUrl ==
    \/ \E content \in UserContents : AddUserMessage(content)
    \/ RunAgentTurn
    \/ SendRequest

SpecUrl == InitUrl /\ [][NextUrl]_vars

\* the path of the base URL of the adapter, then the fixed endpoint path
AppendedEndpoint(schema_type, base_url) ==
    trim_end_matches_slash(base_url)
        \o (IF schema_type = "OpenAI" THEN "/chat/completions" ELSE "/v1/messages")

\* C32: each adapter sends its request to the configured base URL with the
\* fixed endpoint path appended (Anthropic: the base URL with a trailing /v1
\* stripped, then /v1/messages; OpenAI: the base URL, then
\* /chat/completions), so that every path segment of the normalized base
\* URL is preserved in the request URL
C32_BasePathPreserved ==
    /\ provider.schema_type = "Anthropic" =>
            /\ strip_suffix(provider.base_url, "/") = None
            /\ strip_suffix(provider.base_url, "/v1") = None
    /\ endpoint # None =>
            endpoint[1] = AppendedEndpoint(provider.schema_type, provider.base_url)

(***************************************************************************)
(* run_bash step by step (policy_bash.rs:163-228): the child writes to its *)
(* stdout and stderr pipes, the two reader threads drain them with         *)
(* read_to_end, and the thread of run_bash waits for the child, kills it   *)
(* on the timeout and joins the readers.  A pipe holds PipeCapacity chunks *)
(* and a write to a full pipe blocks.  read_to_end returns at the end of   *)
(* file, which is when the pipe is empty and no process holds its write    *)
(* end: neither the shell nor a process the shell started.                 *)
(***************************************************************************)
PipeCapacity == 1
MaxWrites == 3

Streams == { "stdout", "stderr" }

\* what a command writes: up to MaxWrites chunks, each to one of the streams
ChildScripts ==
    LET Chunk(i) == SubSeq("abcd", i, i)
    IN  UNION { { [i \in 1..n |-> [stream |-> to[i], data |-> Chunk(i)]] :
                    to \in [1..n -> Streams] } : n \in 0..MaxWrites }

\* the variables of the orchestrator
orchestrator_vars == << config, tools, command, policy_result, child, agent_vars >>

\* run_bash has spawned the child and the two reader threads and is about
\* to call child.wait_timeout(BASH_TIMEOUT)
InitPipes ==
    /\ config = default_config
    /\ command = ""
    /\ policy_result = "none"
    /\ pc = "idle"
    /\ provider = DynProvider
    /\ tools = << bash_tool >>
    /\ messages = << Message("system", SystemPrompt, None, None, << >>) >>
    /\ session_tokens = [prompt |-> 0, completion |-> 0, total |-> 0]
    /\ request = << >>
    /\ tool_calls = << >>
    /\ call_idx = 0
    /\ results = << >>
    /\ turn_result = NoResult
    /\ provider_calls = 0
    /\ total_calls = 0
    /\ ops = 0
    /\ approvals = << >>
    /\ executed = << >>
    /\ http_pending = FALSE
    /\ http_requests = 0
    /\ http_response = None
    /\ http_request = None
    /\ endpoint = None
    /\ child = None
    /\ in_flight = << >>
    /\ pipes = [stdout |-> << >>, stderr |-> << >>]
    /\ handles = [stdout |-> [buf |-> "", done |-> FALSE],
                  stderr |-> [buf |-> "", done |-> FALSE]]
    /\ \E script \in ChildScripts :
            shell = [state |-> "running", script |-> script, code |-> 0,
                     written |-> [stdout |-> "", stderr |-> ""]]
    /\ descendant = "none"
    /\ waiter = [pc |-> "wait", timed_out |-> FALSE, code |-> 0, stdout |-> "",
                 result |-> None]
    /\ sig_rx = << >>
    /\ stdin = << >>
    /\ stdin_lock = 0
    /\ workers = {}
    /\ reading = None
    /\ returned = << >>
    /\ repl = "start"
    /\ typed = << >>
    /\ raised = << >>

\* the child writes its next chunk; the write blocks while the pipe is full
ChildWrites ==
    /\ shell.state = "running"
    /\ shell.script # << >>
    /\ LET Write(w) ==
                /\ Len(pipes[w.stream]) < PipeCapacity
                /\ pipes' = [pipes EXCEPT ![w.stream] = Append(@, w.data)]
                /\ shell' = [shell EXCEPT !.script = Tail(@),
                                          !.written[w.stream] = @ \o w.data]
       IN  Write(Head(shell.script))
    /\ UNCHANGED << handles, descendant, waiter, term_vars, orchestrator_vars >>

\* the shell starts a process that inherits the write ends of both pipes
\* and goes on beside it
ChildForks ==
    /\ shell.state = "running"
    /\ descendant = "none"
    /\ descendant' = "running"
    /\ UNCHANGED << pipes, handles, shell, waiter, term_vars, orchestrator_vars >>

\* the shell has written everything and exits
ChildExits(code) ==
    /\ shell.state = "running"
    /\ shell.script = << >>
    /\ shell' = [shell EXCEPT !.state = "exited", !.code = code]
    /\ UNCHANGED << pipes, handles, descendant, waiter, term_vars, orchestrator_vars >>

\* the process the shell started exits
DescendantExits ==
    /\ descendant = "running"
    /\ descendant' = "exited"
    /\ UNCHANGED << pipes, handles, shell, waiter, term_vars, orchestrator_vars >>

\* read_to_end of a reader thread takes what is in its pipe
ReaderReads(stream) ==
    /\ ~handles[stream].done
    /\ pipes[stream] # << >>
    /\ handles' = [handles EXCEPT ![stream].buf = @ \o Head(pipes[stream])]
    /\ pipes' = [pipes EXCEPT ![stream] = Tail(@)]
    /\ UNCHANGED << shell, descendant, waiter, term_vars, orchestrator_vars >>

\* read_to_end meets the end of file and the reader thread returns buf
ReaderReturns(stream) ==
    /\ ~handles[stream].done
    /\ pipes[stream] = << >>
    /\ shell.state # "running"
    /\ descendant # "running"
    /\ handles' = [handles EXCEPT ![stream].done = TRUE]
    /\ UNCHANGED << pipes, shell, descendant, waiter, term_vars, orchestrator_vars >>

\* child.wait_timeout(BASH_TIMEOUT) returns Ok(Some(status))
WaitReturns ==
    /\ waiter.pc = "wait"
    /\ shell.state = "exited"
    /\ waiter' = [waiter EXCEPT !.pc = "join_stdout", !.code = shell.code]
    /\ UNCHANGED << pipes, handles, shell, descendant, term_vars, orchestrator_vars >>

\* child.wait_timeout(BASH_TIMEOUT) returns Ok(None): timed_out, child.kill()
\* and child.wait()
TimeoutFires ==
    /\ waiter.pc = "wait"
    /\ shell.state = "running"
    /\ waiter' = [waiter EXCEPT !.pc = "join_stdout", !.timed_out = TRUE, !.code = 124]
    /\ shell' = [shell EXCEPT !.state = "killed"]
    /\ UNCHANGED << pipes, handles, descendant, term_vars, orchestrator_vars >>

\* child.wait_timeout(BASH_TIMEOUT) returns Err
WaitFails ==
    /\ waiter.pc = "wait"
    /\ waiter' = [waiter EXCEPT !.pc = "join_stdout", !.code = 1]
    /\ UNCHANGED << pipes, handles, shell, descendant, term_vars, orchestrator_vars >>

\* stdout_handle.join()
JoinStdout ==
    /\ waiter.pc = "join_stdout"
    /\ handles.stdout.done
    /\ waiter' = [waiter EXCEPT !.pc = "join_stderr", !.stdout = handles.stdout.buf]
    /\ UNCHANGED << pipes, handles, shell, descendant, term_vars, orchestrator_vars >>

\* stderr_handle.join(), and run_bash returns its BashResult
JoinStderr ==
    /\ waiter.pc = "join_stderr"
    /\ handles.stderr.done
    /\ LET Returns(outcome) ==
                waiter' = [waiter EXCEPT !.pc = "returned",
                                         !.result = Some(run_bash(outcome))]
       IN  IF waiter.timed_out
           THEN Returns(StillRunning(waiter.stdout, handles.stderr.buf))
           ELSE Returns(Exited(waiter.code, waiter.stdout, handles.stderr.buf))
    /\ UNCHANGED << pipes, handles, shell, descendant, term_vars, orchestrator_vars >>

\* wait_timeout returns: the child has exited, or the timeout fires
Waited == WaitReturns \/ TimeoutFires

NextPipes ==
    \/ ChildWrites
    \/ ChildForks
    \/ \E code \in { 0, 2 } : ChildExits(code)
    \/ DescendantExits
    \/ \E stream \in Streams : ReaderReads(stream)
    \/ \E stream \in Streams : ReaderReturns(stream)
    \/ WaitReturns
    \/ TimeoutFires
    \/ WaitFails
    \/ JoinStdout
    \/ JoinStderr

\* the threads of run_bash go on: a reader thread that can read or return
\* does, wait_timeout returns after 30 seconds at the latest, and a join
\* returns once its thread has.  Nothing makes the child or a process it
\* started go on or exit.
SpecPipes ==
    /\ InitPipes
    /\ [][NextPipes]_vars
    /\ WF_<< pipes, handles >>(ReaderReads("stdout"))
    /\ WF_<< pipes, handles >>(ReaderReads("stderr"))
    /\ WF_handles(ReaderReturns("stdout"))
    /\ WF_handles(ReaderReturns("stderr"))
    /\ WF_waiter(Waited)
    /\ WF_waiter(JoinStdout)
    /\ WF_waiter(JoinStderr)

\* run_bash has returned
RunBashDone == waiter.pc = "returned"

\* C33: run_bash drains the stdout and stderr of the child on two worker
\* threads that run beside the child and returns only after both have been
\* joined: a child that writes more than a pipe buffer to either stream, in
\* any interleaving, never blocks forever against run_bash, and the
\* returned stdout and stderr contain everything the child wrote
C33_DrainedBesideChildAndComplete ==
    /\ [](RunBashDone =>
            /\ handles.stdout.done /\ handles.stderr.done
            /\ waiter.result[1].stdout = shell.written.stdout
            /\ waiter.result[1].stderr = shell.written.stderr)
    /\ \A stream \in Streams :
            (Len(pipes[stream]) = PipeCapacity) ~> (Len(pipes[stream]) < PipeCapacity)

\* what holds of the drain: stdout is complete, and so is stderr unless the
\* timeout fired, when the notice stands in its place
DrainedUnlessTimedOut ==
    /\ [](RunBashDone =>
            /\ handles.stdout.done /\ handles.stderr.done
            /\ waiter.result[1].stdout = shell.written.stdout
            /\ handles.stderr.buf = shell.written.stderr
            /\ waiter.result[1].stderr =
                    IF waiter.timed_out THEN "Command timed out (30s)"
                    ELSE shell.written.stderr)
    /\ \A stream \in Streams :
            (Len(pipes[stream]) = PipeCapacity) ~> (Len(pipes[stream]) < PipeCapacity)

\* C34: whenever the 30-second timeout fires, run_bash kills the child and
\* then eventually returns a BashResult with code 124, also when the output
\* pipes are still held open by a descendant of the killed shell: the joins
\* on the reader threads always complete
C34_TimeoutReturns124 ==
    /\ [](waiter.timed_out => shell.state = "killed")
    /\ [](RunBashDone /\ waiter.timed_out => waiter.result[1].code = 124)
    /\ waiter.timed_out ~> RunBashDone

\* what holds of the timeout: run_bash returns once no process the shell
\* started holds the pipes
TimeoutReturnsUnlessHeld ==
    /\ [](RunBashDone /\ waiter.timed_out => waiter.result[1].code = 124)
    /\ (waiter.timed_out /\ descendant # "running") ~> RunBashDone

(***************************************************************************)
(* The terminal (core/main.rs): the ctrlc handler sends to the channel     *)
(* sig_rx, and every call of read_line starts a worker thread that reads   *)
(* one line from the standard input, while the calling thread polls the    *)
(* channel of that worker and then sig_rx, every 50 ms.  The main loop of  *)
(* run calls read_line for its prompt and, inside run_agent_turn, the      *)
(* prompt_approval callback calls it for each command to be approved; of   *)
(* the turn only that is kept here.  io::stdin().read_line holds the lock  *)
(* of the standard input while it waits for a line.  When run returns the  *)
(* process exits and its threads end.  The "!" and "/" commands of the     *)
(* main loop, with the third call of read_line (the additional input of a  *)
(* skill), are left out.                                                   *)
(***************************************************************************)
MaxReads == 3
MaxLines == 2
MaxSignals == 2

\* what the user enters, line after line
TypedLines == << "y", "list the files", "n", "" >>

\* the call of read_line that is waiting, 0 when none is
PendingCall == IF reading = None THEN 0 ELSE reading[1].call

\* the handler of ctrlc::set_handler: sig_tx.send(())
Interrupt ==
    /\ repl \in { "read_line", "turn" }
    /\ Len(raised) < MaxSignals
    /\ sig_rx' = Append(sig_rx, [during |-> PendingCall])
    /\ raised' = Append(raised, [during |-> PendingCall])
    /\ UNCHANGED << stdin, stdin_lock, workers, reading, returned, repl, typed,
                    pipe_vars, orchestrator_vars >>

\* the user enters a line
UserTypes ==
    /\ repl \in { "read_line", "turn" }
    /\ Len(typed) < MaxLines
    /\ stdin' = Append(stdin, TypedLines[Len(typed) + 1])
    /\ typed' = Append(typed, [line |-> TypedLines[Len(typed) + 1], during |-> PendingCall])
    /\ UNCHANGED << sig_rx, stdin_lock, workers, reading, returned, repl, raised,
                    pipe_vars, orchestrator_vars >>

\* read_line is called, by the main loop for its prompt ("main": at the
\* start and when run_agent_turn has returned) or by prompt_approval inside
\* run_agent_turn ("approval"): the prompt is printed, the channels are made
\* and the worker thread is spawned
ReadLineCalled(kind) ==
    /\ \/ kind = "main" /\ repl \in { "start", "turn" }
       \/ kind = "approval" /\ repl = "turn"
    /\ Len(returned) < MaxReads
    /\ reading' = Some([call |-> Len(returned) + 1, kind |-> kind, at |-> "line_rx",
                        line_rx |-> << >>])
    /\ workers' = workers \cup { Len(returned) + 1 }
    /\ repl' = "read_line"
    /\ UNCHANGED << sig_rx, stdin, stdin_lock, returned, typed, raised,
                    pipe_vars, orchestrator_vars >>

\* a worker thread enters io::stdin().read_line and takes the lock
WorkerLocks(w) ==
    /\ repl # "exited"
    /\ w \in workers
    /\ stdin_lock = 0
    /\ stdin_lock' = w
    /\ UNCHANGED << sig_rx, stdin, workers, reading, returned, repl, typed, raised,
                    pipe_vars, orchestrator_vars >>

\* the worker thread inside io::stdin().read_line gets the next line and
\* sends it to its line_tx; the send fails when the call of read_line that
\* spawned the thread has returned, and the line is dropped with the thread
WorkerReads ==
    /\ repl # "exited"
    /\ stdin_lock # 0
    /\ stdin # << >>
    /\ stdin' = Tail(stdin)
    /\ stdin_lock' = 0
    /\ workers' = workers \ { stdin_lock }
    /\ reading' = IF PendingCall = stdin_lock
                  THEN Some([reading[1] EXCEPT !.line_rx = Append(@, Head(stdin))])
                  ELSE reading
    /\ UNCHANGED << sig_rx, returned, repl, typed, raised, pipe_vars, orchestrator_vars >>

\* what read_line returns to: the main loop goes on to its turn with a line
\* and returns from run when cancelled; prompt_approval returns into the turn
ReadLineReturns(line, cancelled, signal) ==
    /\ returned' = Append(returned, [call |-> reading[1].call, kind |-> reading[1].kind,
                                     line |-> line, cancelled |-> cancelled,
                                     signal |-> signal])
    /\ reading' = None
    /\ repl' = IF reading[1].kind = "main" /\ cancelled THEN "exited" ELSE "turn"

\* line_rx.recv_timeout(50 ms) returns a line: Ok((line, false))
ReadLineReturnsLine ==
    /\ reading # None
    /\ reading[1].at = "line_rx"
    /\ reading[1].line_rx # << >>
    /\ ReadLineReturns(Head(reading[1].line_rx), FALSE, None)
    /\ UNCHANGED << sig_rx, stdin, stdin_lock, workers, typed, raised,
                    pipe_vars, orchestrator_vars >>

\* line_rx.recv_timeout(50 ms) times out
ReadLineTimesOut ==
    /\ reading # None
    /\ reading[1].at = "line_rx"
    /\ reading[1].line_rx = << >>
    /\ reading' = Some([reading[1] EXCEPT !.at = "sig_rx"])
    /\ UNCHANGED << sig_rx, stdin, stdin_lock, workers, returned, repl, typed, raised,
                    pipe_vars, orchestrator_vars >>

\* guard.try_recv() finds a signal: Ok((String::new(), true))
ReadLineCancelled ==
    /\ reading # None
    /\ reading[1].at = "sig_rx"
    /\ sig_rx # << >>
    /\ sig_rx' = Tail(sig_rx)
    /\ ReadLineReturns("", TRUE, Some(Head(sig_rx).during))
    /\ UNCHANGED << stdin, stdin_lock, workers, typed, raised, pipe_vars, orchestrator_vars >>

\* guard.try_recv() finds nothing and the loop goes round
ReadLineGoesOn ==
    /\ reading # None
    /\ reading[1].at = "sig_rx"
    /\ sig_rx = << >>
    /\ reading' = Some([reading[1] EXCEPT !.at = "line_rx"])
    /\ UNCHANGED << sig_rx, stdin, stdin_lock, workers, returned, repl, typed, raised,
                    pipe_vars, orchestrator_vars >>

\* one round of the loop of read_line
ReadLinePolls ==
    ReadLineReturnsLine \/ ReadLineTimesOut \/ ReadLineCancelled \/ ReadLineGoesOn

InitTerminal ==
    /\ config = default_config
    /\ command = ""
    /\ policy_result = "none"
    /\ pc = "idle"
    /\ provider = DynProvider
    /\ AgentNew

NextTerminal ==
    \/ Interrupt
    \/ UserTypes
    \/ \E kind \in { "main", "approval" } : ReadLineCalled(kind)
    \/ \E w \in 1..MaxReads : WorkerLocks(w)
    \/ WorkerReads
    \/ ReadLineReturnsLine
    \/ ReadLineTimesOut
    \/ ReadLineCancelled
    \/ ReadLineGoesOn

\* the threads go on: the loop of read_line goes round, a worker thread
\* takes the free lock, and the one that holds it gets the line that is
\* there.  Nothing makes the user enter a line or raise a signal, and
\* nothing is said of how long a turn takes.
SpecTerminal ==
    /\ InitTerminal
    /\ [][NextTerminal]_vars
    /\ WF_reading(ReadLinePolls)
    /\ WF_stdin_lock(\E w \in 1..MaxReads : WorkerLocks(w))
    /\ WF_stdin(WorkerReads)

\* call c of read_line is waiting, has returned, has returned a line
Pending(c) == PendingCall = c
HasReturned(c) == \E i \in 1..Len(returned) : returned[i].call = c
ReturnedLine(c) ==
    \E i \in 1..Len(returned) : returned[i].call = c /\ ~returned[i].cancelled

\* a signal was raised while call c was waiting
RaisedDuring(c) == \E i \in 1..Len(raised) : raised[i].during = c

\* C35: if an interrupt signal is delivered while read_line is waiting and
\* no input line arrives, read_line eventually returns cancelled = true
\* without waiting for its worker thread; if an input line arrives and no
\* signal is delivered, it returns that line with cancelled = false; so a
\* pending prompt is always abandoned or answered and never blocks the exit
C35_PromptAbandonedOrAnswered ==
    /\ \A c \in 1..MaxReads : (Pending(c) /\ RaisedDuring(c)) ~> HasReturned(c)
    /\ \A c \in 1..MaxReads :
            (Pending(c) /\ stdin # << >>) ~> (RaisedDuring(c) \/ ReturnedLine(c))
    /\ [](\A i \in 1..Len(returned) :
            /\ returned[i].cancelled => returned[i].line = ""
            /\ ~returned[i].cancelled => \E j \in 1..Len(typed) : typed[j].line = returned[i].line
            /\ returned[i].cancelled /\ returned[i].kind = "main" => repl = "exited")

\* what holds of read_line: a call with a signal raised during its wait
\* returns, a cancelled call returns no line and took a signal, and the
\* main loop returns from run on a cancelled prompt whatever the worker
\* threads do
InterruptedPromptReturns ==
    /\ \A c \in 1..MaxReads : (Pending(c) /\ RaisedDuring(c)) ~> HasReturned(c)
    /\ [](\A i \in 1..Len(returned) :
            /\ returned[i].cancelled => returned[i].line = "" /\ returned[i].signal # None
            /\ ~returned[i].cancelled => \E j \in 1..Len(typed) : typed[j].line = returned[i].line
            /\ returned[i].cancelled /\ returned[i].kind = "main" => repl = "exited")

\* C38: an interrupt signal cancels only a prompt that is pending when the
\* signal is raised: a signal raised while no prompt is pending (during a
\* provider call or a command execution) does not make a later call of
\* read_line return cancelled
C38_SignalCancelsPendingPromptOnly ==
    \A i \in 1..Len(returned) :
        returned[i].cancelled => returned[i].signal = Some(returned[i].call)

\* C39: every line the user enters is returned by exactly one call of
\* read_line: a line entered after an earlier call returned cancelled goes
\* to the next call and is not consumed and dropped by the worker thread of
\* the abandoned call
C39_EveryLineReturnedOnce ==
    LET LineOf(entries) == [i \in 1..Len(entries) |-> entries[i].line]
        ReturnedLines == LineOf(SelectSeq(returned, LAMBDA entry : ~entry.cancelled))
        InChannel == IF reading = None THEN << >> ELSE reading[1].line_rx
    IN  repl # "exited" => LineOf(typed) = ReturnedLines \o InChannel \o stdin

(***************************************************************************)
(* Further properties of the orchestrator (checked under Spec and          *)
(* SpecLive).                                                              *)
(***************************************************************************)

\* the Tool messages behind an assistant message answer its calls: as many
\* as calls, each with the id of its call, in call order, and no Tool
\* message behind them
AnsweredAt(history, i) ==
    LET Answers(calls) ==
            /\ i + Len(calls) <= Len(history)
            /\ \A k \in 1..Len(calls) :
                    /\ history[i + k].role = "tool"
                    /\ history[i + k].tool_call_id = Some(calls[k].id)
            /\ (i + Len(calls) < Len(history)
                    => history[i + Len(calls) + 1].role # "tool")
    IN  Answers(history[i].tool_calls)

\* a Tool message is one of the answers behind an assistant message
BelongsAt(history, j) ==
    \E i \in 1..(j - 1) :
        /\ history[i].role = "assistant"
        /\ j - i <= Len(history[i].tool_calls)
        /\ \A k \in (i + 1)..j : history[k].role = "tool"

\* C36: whenever run_agent_turn is not executing, every Assistant message
\* with n tool calls in the history is immediately followed by exactly n
\* Tool messages whose tool_call_id values are the ids of the calls in call
\* order, and every Tool message of the history belongs to such a group
C36_ToolCallsAnsweredInHistory ==
    pc = "idle" =>
        \A i \in 1..Len(messages) :
            /\ messages[i].role = "assistant" => AnsweredAt(messages, i)
            /\ messages[i].role = "tool" => BelongsAt(messages, i)

\* two turns are over: one of three calls and their three answers, and one
\* that failed
C36_Witness ==
    /\ pc = "idle"
    /\ turn_result.kind = "Err"
    /\ \E i \in 1..Len(messages) :
            /\ Len(messages[i].tool_calls) = 3
            /\ i + 3 <= Len(messages)
            /\ messages[i + 3].tool_call_id = Some("call_3")
    /\ LastMessage(messages).role = "user"

\* the texts of the Tool messages of the calls that are not run
DeniedText == "Command denied by policy."
RejectedText == "User rejected command."

\* the step on which check_policy denies the bash call being handled
DeniedStep ==
    LET Denied(call) ==
            /\ IsBashTool(call.name)
            /\ extract_command(call.input) # ""
            /\ check_policy(extract_command(call.input), config) = "Deny"
    IN  pc = "tools" /\ pc' # pc /\ Denied(tool_calls[call_idx])

\* the step on which the human rejects or cancels the call being handled,
\* or the prompt fails
RejectedStep ==
    /\ pc = "prompt_approval"
    /\ approvals'[Len(approvals')].answer \in {"Ok(false)", "Err"}

\* a call of the reply being handled was denied or rejected
RefusalPending ==
    /\ pc \in {"tools", "prompt_approval", "run_bash"}
    /\ \E i \in 1..Len(results) : results[i].content \in {DeniedText, RejectedText}

====
